---------------------------- MODULE Spec2Model ----------------------------
(***************************************************************************)
(* Phase B statutory compliance analysis (src/src/phase_analysis).         *)
(*                                                                         *)
(* Two DocumentProfile values are handed to build_phase_b_report, which    *)
(* evaluates each against the PROVISIONS registry and returns a report.    *)
(*                                                                         *)
(* Representation of Python values:                                        *)
(*   str            a TLA+ string; strip(), lower() and the ordering used  *)
(*                  by sorted() are tabulated over the strings of the      *)
(*                  model (Strip, Lower, CodePointOrder)                   *)
(*   Optional[T]    None is <<>>, a present value v is <<v>>               *)
(*   list           a sequence;   set: a set;   dict: a function           *)
(*   dataclass      a record with the dataclass's field names              *)
(* The en dash of the provision labels is written "-" (ASCII only).        *)
(*                                                                         *)
(* OutcomeTracker (src/src/victoria_magistrates/court_knowledge.py) keeps  *)
(* a JSON outcome log in one storage file; two callers use it.  Its state  *)
(* machine is TrackerSpec; Spec is the Phase B state machine.              *)
(***************************************************************************)
EXTENDS Naturals, Sequences, FiniteSets, TLC

VARIABLES
    doc_a,      \* the DocumentProfile passed as doc_a
    doc_b,      \* the DocumentProfile passed as doc_b
    registry,   \* the module-level PROVISIONS tuple
    previous,   \* the PhaseBReport returned by the call before the latest, if any
    latest,     \* the PhaseBReport returned by the latest call, if any
    swapped,    \* the PhaseBReport returned by the latest call on (doc_b, doc_a), if any
    file,       \* the text of the storage file, if the file exists
    trackers,   \* the callers holding a constructed OutcomeTracker
    pc,         \* where each caller is inside __init__ or record_outcome
    outcomes,   \* the local list `outcomes` of each caller's record_outcome
    entry,      \* the local `entry` of each caller's record_outcome
    response,   \* what each caller's latest finished call returned or raised
    clock,      \* the number of datetime.now() readings taken
    initial,    \* history: the storage file before any call
    recorded,   \* history: the entries record_outcome returned, with the list each call had read
    overlapped, \* history: some call began while another caller's call was in progress
    failed,     \* history: the <<operation, exception>> pairs raised so far
    requested,  \* the stage or section name a caller asks for
    provided,   \* the `provided` mapping the caller passes
    answer,     \* what the latest checklist evaluation returned or raised, if any
    interpreted,    \* the provisions handed to the PhaseCInterpreter
    harmonisation   \* the list _harmonise_documents returned for them, if any

phase_b_vars == <<doc_a, doc_b, registry, previous, latest, swapped>>

tracker_vars ==
    <<file, trackers, pc, outcomes, entry, response, clock, initial, recorded, overlapped, failed>>

checklist_vars == <<requested, provided, answer>>

phase_c_vars == <<interpreted, harmonisation>>

vars == <<phase_b_vars, tracker_vars, checklist_vars, phase_c_vars>>

(***************************************************************************)
(* Bounds of the model.                                                    *)
(***************************************************************************)
MaxList == 2    \* longest list held by a profile field

MaxCalls == 2   \* record_outcome calls that take a timestamp

MaxApplications == 3    \* most applications held by one provision

SeqsUpTo(S, n) == UNION {[1..k -> S] : k \in 0..n}

(***************************************************************************)
(* Python built-ins.                                                       *)
(***************************************************************************)
None == <<>>

Some(v) == <<v>>

\* The end of a call: a returned value, or a raised exception.
Returns(value) == [raised |-> None, value |-> Some(value)]

Raises(exception) == [raised |-> Some(exception), value |-> None]

\* The reports of the last two calls, in call order.
returned == previous \o latest

\* bool(x) of an Optional[str]: None and "" are falsy.
Truthy(opt) == opt # None /\ opt[1] # ""

\* str.strip(): leading and trailing whitespace removed.
Strip(s) ==
    CASE s = "  " -> ""
      [] s = "   " -> ""
      [] s = " s.49 " -> "s.49"
      [] s = " Lane weaving " -> "Lane weaving"
      [] s = " vehicle stop " -> "vehicle stop"
      [] s = " results recorded " -> "results recorded"
      [] s = " RSA 1986 s.55D" -> "RSA 1986 s.55D"
      [] s = " cpa 2009 " -> "cpa 2009"
      [] s = " officer observed weaving " -> "officer observed weaving"
      [] s = "Road Safety Act 1986 (Vic) " -> "Road Safety Act 1986 (Vic)"
      [] s = " s 55D" -> "s 55D"
      [] OTHER -> s

\* str.lower(); a string without upper-case letters is its own value.
Lower(s) ==
    CASE s = "Mandatory disclosure items missing" -> "mandatory disclosure items missing"
      [] s = "Mandatory disclosure complete" -> "mandatory disclosure complete"
      [] s = "Witness statements require signatures/dates" -> "witness statements require signatures/dates"
      [] s = "No witness statements supplied" -> "no witness statements supplied"
      [] s = "All witness statements executed" -> "all witness statements executed"
      [] s = "Disclosure served within s.186 timeframe" -> "disclosure served within s.186 timeframe"
      [] s = "Disclosure timing not recorded" -> "disclosure timing not recorded"
      [] s = "Served five days late" -> "served five days late"
      [] s = "Served within statutory timeframe" -> "served within statutory timeframe"
      [] s = "Exhibits identified and described" -> "exhibits identified and described"
      [] s = "Exhibits identified but descriptions incomplete" -> "exhibits identified but descriptions incomplete"
      [] s = "Exhibit list provided without identifiers" -> "exhibit list provided without identifiers"
      [] s = "No exhibits disclosed" -> "no exhibits disclosed"
      [] s = "Statutory authority recorded" -> "statutory authority recorded"
      [] s = "Authority cited but basis described as ambiguous" -> "authority cited but basis described as ambiguous"
      [] s = "Statutory authority for the preliminary test absent" -> "statutory authority for the preliminary test absent"
      [] s = "Reason to believe articulated" -> "reason to believe articulated"
      [] s = "No s.49(1) reasonable belief particulars provided" -> "no s.49(1) reasonable belief particulars provided"
      [] s = "Directions documented per s.55D(1)" -> "directions documented per s.55d(1)"
      [] s = "Directions compliance not established" -> "directions compliance not established"
      [] s = "Oral directions provided out of caution" -> "oral directions provided out of caution"
      [] s = "Oral directions not mandated" -> "oral directions not mandated"
      [] s = "Oral directions documented for literate subject" -> "oral directions documented for literate subject"
      [] s = "No record of oral directions for literate subject" -> "no record of oral directions for literate subject"
      [] s = "Proper performance established under s.55E" -> "proper performance established under s.55e"
      [] s = "Proper performance information incomplete" -> "proper performance information incomplete"
      [] s = "Evidentiary test requirements met" -> "evidentiary test requirements met"
      [] s = "Evidentiary test departed from statutory requirements" -> "evidentiary test departed from statutory requirements"
      [] s = "No evidentiary test information recorded" -> "no evidentiary test information recorded"
      [] s = "Hearsay issues identified under s.59" -> "hearsay issues identified under s.59"
      [] s = "No hearsay review documented" -> "no hearsay review documented"
      [] s = "Hearsay exception not demonstrated" -> "hearsay exception not demonstrated"
      [] s = "Hearsay exceptions articulated" -> "hearsay exceptions articulated"
      [] s = "No hearsay evidence tendered" -> "no hearsay evidence tendered"
      [] s = "Business records exception unsupported" -> "business records exception unsupported"
      [] s = "Business records foundation established" -> "business records foundation established"
      [] s = "No business records disclosed" -> "no business records disclosed"
      [] s = "s.137 balancing undertaken" -> "s.137 balancing undertaken"
      [] s = "s.137 discretion triggered without documented balancing" -> "s.137 discretion triggered without documented balancing"
      [] s = "No s.137 prejudice concerns raised" -> "no s.137 prejudice concerns raised"
      [] s = "Potentially improperly obtained evidence with no mitigation" -> "potentially improperly obtained evidence with no mitigation"
      [] s = "Improper obtainment issues noted with mitigation" -> "improper obtainment issues noted with mitigation"
      [] s = "No s.138 issues identified" -> "no s.138 issues identified"
      [] s = "CPA 2009 s.186" -> "cpa 2009 s.186"
      [] s = "RSA 1986 s.55D" -> "rsa 1986 s.55d"
      [] s = "Evidence Act 2008 s.69" -> "evidence act 2008 s.69"
      [] s = "CPA 2009" -> "cpa 2009"
      [] s = "Driver admitted consuming alcohol" -> "driver admitted consuming alcohol"
      [] s = "Officer observed weaving" -> "officer observed weaving"
      [] s = "Vehicle stop" -> "vehicle stop"
      [] s = "Directions provided" -> "directions provided"
      [] s = "Test administered" -> "test administered"
      [] s = "Results recorded" -> "results recorded"
      [] s = "TEST ADMINISTERED" -> "test administered"
      [] s = "Approx 22:00" -> "approx 22:00"
      [] s = "About 21:50" -> "about 21:50"
      [] OTHER -> s

\* token in text, for the lower-cased time entries of the model
Contains(text, token) ==
    <<text, token>> \in {<<"approx 22:00", "approx">>, <<"about 21:50", "about">>}

\* The strings of the model that sorted() may be given, in the order Python
\* compares str values (by code point).
CodePointOrder ==
    << "\"in accordance with directions\" language",
       "55D directions language",
       "Blood sample mishandled",
       "Breathalyser maintenance log",
       "Bystander statement",
       "CPA 2009",
       "CPA 2009 s.186",
       "Calibration certificate",
       "Constable Lee",
       "Directions provided",
       "Driver admitted consuming alcohol",
       "Evidence Act 2008 s.69",
       "Failure to caution",
       "Highly prejudicial character evidence",
       "Maintenance log",
       "Minimal prejudice",
       "Neighbour recount",
       "Officer observed weaving",
       "RSA 1986 s.55D",
       "Results recorded",
       "TEST ADMINISTERED",
       "Test administered",
       "Vehicle stop",
       "Witness Patel",
       "calibration records",
       "calibration/maintenance records",
       "cpa 2009",
       "cpa 2009 s.186",
       "device approval number",
       "directions provided",
       "directions recorded",
       "driver admitted consuming alcohol",
       "driving time recorded",
       "evidence act 2008 s.69",
       "exhibit descriptions complete",
       "exhibits identified",
       "hearsay exceptions satisfied",
       "informant statement",
       "mandatory disclosure complete",
       "offence",
       "officer observed weaving",
       "oral directions given",
       "performance indicators",
       "physical evidence list",
       "prior convictions history",
       "proper performance indicators",
       "reason to believe documented",
       "record of directions given",
       "results recorded",
       "rsa 1986 s.55d",
       "statements signed and dated",
       "statutory authority recorded",
       "test",
       "test administered",
       "test time recorded",
       "vehicle stop",
       "witness statements" >>

Rank(s) == CHOOSE i \in 1..Len(CodePointOrder) : CodePointOrder[i] = s

\* set(items)
ToSet(items) == {items[i] : i \in 1..Len(items)}

\* sorted(S) of a set of str: the members of S in code-point order.  Not
\* defined for a string outside CodePointOrder.
Sorted(S) ==
    IF S \subseteq ToSet(CodePointOrder)
    THEN SelectSeq(CodePointOrder, LAMBDA s : s \in S)
    ELSE CHOOSE order \in {} : TRUE

\* sep.join(items)
RECURSIVE Join(_, _)
Join(sep, items) ==
    IF items = <<>> THEN ""
    ELSE IF Len(items) = 1 THEN items[1]
    ELSE items[1] \o sep \o Join(sep, Tail(items))

\* [f(x) for x in items if keep(x)]
Comprehension(items, keep(_), f(_)) ==
    LET kept == SelectSeq(items, keep)
    IN  [i \in 1..Len(kept) |-> f(kept[i])]

(***************************************************************************)
(* models.py: enumerations and the derived predicates of the profiles.     *)
(***************************************************************************)
COMPLIANT == "COMPLIANT"

UNCLEAR == "UNCLEAR"

NON_COMPLIANT == "NON_COMPLIANT"

ComplianceStatus == {COMPLIANT, UNCLEAR, NON_COMPLIANT}

\* ComplianceStatus.colour
colour(status) ==
    CASE status = COMPLIANT -> "GREEN"
      [] status = UNCLEAR -> "YELLOW"
      [] status = NON_COMPLIANT -> "RED"

\* CheckStatus(status, message, missing_items=[])
CheckStatus(status, message, missing_items) ==
    [status |-> status, message |-> message, missing_items |-> missing_items]


\* missing_mandatory_items without the witness-statement check.
missing_mandatory_items_flags_only(self) ==
    (IF ~self.informant_statement_provided THEN <<"informant statement">> ELSE <<>>)
    \o (IF ~self.prior_convictions_disclosed THEN <<"prior convictions history">> ELSE <<>>)
    \o (IF ~self.physical_exhibit_list_provided THEN <<"physical evidence list">> ELSE <<>>)

\* DisclosurePackage.missing_mandatory_items
missing_mandatory_items(self) ==
    (IF ~self.informant_statement_provided THEN <<"informant statement">> ELSE <<>>)
    \o (IF self.witness_statements = <<>> THEN <<"witness statements">> ELSE <<>>)
    \o (IF ~self.prior_convictions_disclosed THEN <<"prior convictions history">> ELSE <<>>)
    \o (IF ~self.physical_exhibit_list_provided THEN <<"physical evidence list">> ELSE <<>>)
\* unsigned_or_undated_statements looking at the signature only.
unsigned_or_undated_statements_unsigned_only(self) ==
    Comprehension(self.witness_statements,
                  LAMBDA statement : ~statement.signed,
                  LAMBDA statement : statement.name)

\* DisclosurePackage.unsigned_or_undated_statements
unsigned_or_undated_statements(self) ==
    Comprehension(self.witness_statements,
                  LAMBDA statement : ~statement.signed \/ ~statement.dated,
                  LAMBDA statement : statement.name)

\* PreliminaryTestRecord.has_reason_to_believe
has_reason_to_believe(self) ==
    Truthy(self.reason_to_believe_detail)
    /\ Strip(self.reason_to_believe_detail[1]) # ""

\* PreliminaryTestRecord.has_statutory_authority
has_statutory_authority(self) ==
    Truthy(self.statutory_authority)
    /\ Strip(self.statutory_authority[1]) # ""

\* PreliminaryTestRecord.has_proper_performance_indicators
has_proper_performance_indicators(self) ==
    self.proper_performance_indicators # <<>>

\* calibration_complete requiring both record lists.
calibration_complete_requiring_both(self) ==
    self.calibration_records # <<>> /\ self.maintenance_records # <<>>

\* PreliminaryTestRecord.calibration_complete
calibration_complete(self) ==
    self.calibration_records # <<>> \/ self.maintenance_records # <<>>

\* hearsay_without_exception listing only the items that claim no exception.
hearsay_without_exception_unclaimed_only(self) ==
    Comprehension(self.hearsay_items,
                  LAMBDA item : item.exception_claimed = None,
                  LAMBDA item : item.description)

\* EvidenceProfile.hearsay_without_exception
hearsay_without_exception(self) ==
    Comprehension(self.hearsay_items,
                  LAMBDA item : item.exception_claimed = None \/ ~item.exception_supported,
                  LAMBDA item : item.description)

\* EvidenceProfile.business_records_without_foundation
business_records_without_foundation(self) ==
    Comprehension(self.business_records,
                  LAMBDA record : ~record.exception_established,
                  LAMBDA record : record.description)

\* EvidenceProfile.has_unlawful_obtainment_risk
has_unlawful_obtainment_risk(self) ==
    self.s138_exclusion_factors # <<>> /\ self.s138_mitigation_steps = <<>>

\* The normalisation without lower().
Normalised_case_sensitive(items) ==
    {Strip(items[i]) : i \in {j \in 1..Len(items) : Strip(items[j]) # ""}}

\* {x.strip().lower() for x in items if x.strip()}
Normalised(items) ==
    {Lower(Strip(items[i])) : i \in {j \in 1..Len(items) : Strip(items[j]) # ""}}

\* DocumentProfile.normalised_statutory_refs
normalised_statutory_refs(self) == Normalised(self.statutory_references)

\* DocumentProfile.normalised_facts
normalised_facts(self) == Normalised(self.facts)
\* normalised_procedures keeping the case of the steps.
normalised_procedures_keeping_case(self) ==
    {Strip(self.procedural_steps[i]) :
        i \in {j \in 1..Len(self.procedural_steps) : Strip(self.procedural_steps[j]) # ""}}

\* DocumentProfile.normalised_procedures
normalised_procedures(self) == Normalised(self.procedural_steps)

\* DocumentProfile.material_elements
material_elements(self) ==
    {e \in {"statutory authority recorded"} : has_statutory_authority(self.preliminary_test)}
    \cup {e \in {"reason to believe documented"} : has_reason_to_believe(self.preliminary_test)}
    \cup {e \in {"55D directions language"} : self.preliminary_test.directions_compliance_language}
    \cup {e \in {"directions recorded"} : self.preliminary_test.directions_documented}
    \cup {e \in {"oral directions given"} : self.preliminary_test.oral_directions_documented}
    \cup {e \in {"proper performance indicators"} :
            has_proper_performance_indicators(self.preliminary_test)}
    \cup {e \in {"device approval number"} : Truthy(self.preliminary_test.device_approval_number)}
    \cup {e \in {"calibration records"} : calibration_complete(self.preliminary_test)}
    \cup {e \in {"test time recorded"} : Truthy(self.preliminary_test.test_time)}
    \cup {e \in {"driving time recorded"} : Truthy(self.preliminary_test.driving_time)}
    \cup {e \in {"mandatory disclosure complete"} :
            missing_mandatory_items(self.disclosure) = <<>>}
    \cup {e \in {"statements signed and dated"} :
            unsigned_or_undated_statements(self.disclosure) = <<>>}
    \cup {e \in {"exhibits identified"} : self.disclosure.exhibits_identified}
    \cup {e \in {"exhibit descriptions complete"} : self.disclosure.exhibit_descriptions_complete}
    \cup {e \in {"hearsay exceptions satisfied"} : hearsay_without_exception(self.evidence) = <<>>}

HIGH == "HIGH"

MEDIUM == "MEDIUM"

LOW == "LOW"

\* Defect(document, description, severity, statutory_reference=None)
Defect(document, description, severity, statutory_reference) ==
    [document |-> document, description |-> description, severity |-> severity,
     statutory_reference |-> statutory_reference]

\* DefectReport()
DefectReport == [high |-> <<>>, medium |-> <<>>, low |-> <<>>]

\* DefectReport.add
add(self, defect) ==
    IF defect.severity = HIGH THEN [self EXCEPT !.high = Append(@, defect)]
    ELSE IF defect.severity = MEDIUM THEN [self EXCEPT !.medium = Append(@, defect)]
    ELSE [self EXCEPT !.low = Append(@, defect)]

(***************************************************************************)
(* phase_b.py: the fifteen evaluators, DocumentProfile -> CheckStatus.      *)
(***************************************************************************)
_disclosure_items(document) ==
    LET missing == missing_mandatory_items(document.disclosure)
    IN  IF missing # <<>>
        THEN CheckStatus(NON_COMPLIANT, "Mandatory disclosure items missing", missing)
        ELSE CheckStatus(COMPLIANT, "Mandatory disclosure complete", <<>>)

_statement_execution(document) ==
    LET disclosure == document.disclosure
        unsigned == unsigned_or_undated_statements(disclosure)
    IN  IF unsigned # <<>>
        THEN CheckStatus(NON_COMPLIANT, "Witness statements require signatures/dates", unsigned)
        ELSE IF disclosure.witness_statements = <<>>
        THEN CheckStatus(UNCLEAR, "No witness statements supplied", <<>>)
        ELSE CheckStatus(COMPLIANT, "All witness statements executed", <<>>)


\* _disclosure_timing testing the flag's truth value (None taken as False).
_disclosure_timing_coercing(document) ==
    LET timing == document.disclosure.disclosure_timing_compliant
        note == IF Truthy(document.disclosure.timing_notes)
                THEN document.disclosure.timing_notes[1]
                ELSE "timing non-compliant"
    IN  IF timing = Some(TRUE)
        THEN CheckStatus(COMPLIANT, "Disclosure served within s.186 timeframe", <<>>)
        ELSE CheckStatus(NON_COMPLIANT, note, <<>>)

_disclosure_timing(document) ==
    LET timing == document.disclosure.disclosure_timing_compliant
        note == IF Truthy(document.disclosure.timing_notes)
                THEN document.disclosure.timing_notes[1]
                ELSE "timing non-compliant"
    IN  IF timing = Some(TRUE)
        THEN CheckStatus(COMPLIANT, "Disclosure served within s.186 timeframe", <<>>)
        ELSE IF timing = Some(FALSE)
        THEN CheckStatus(NON_COMPLIANT, note, <<>>)
        ELSE CheckStatus(UNCLEAR, "Disclosure timing not recorded", <<>>)

_exhibit_identification(document) ==
    LET disclosure == document.disclosure
    IN  IF disclosure.exhibits_identified
        THEN IF disclosure.exhibit_descriptions_complete
             THEN CheckStatus(COMPLIANT, "Exhibits identified and described", <<>>)
             ELSE CheckStatus(UNCLEAR, "Exhibits identified but descriptions incomplete", <<>>)
        ELSE IF disclosure.physical_exhibit_list_provided
        THEN CheckStatus(NON_COMPLIANT, "Exhibit list provided without identifiers", <<>>)
        ELSE CheckStatus(UNCLEAR, "No exhibits disclosed", <<>>)


\* _statutory_authority testing for presence before the ambiguity flag.
_statutory_authority_presence_first(document) ==
    LET preliminary == document.preliminary_test
    IN  IF has_statutory_authority(preliminary)
        THEN CheckStatus(COMPLIANT, "Statutory authority recorded", <<>>)
        ELSE IF preliminary.authority_is_ambiguous
        THEN CheckStatus(UNCLEAR, "Authority cited but basis described as ambiguous", <<>>)
        ELSE CheckStatus(NON_COMPLIANT, "Statutory authority for the preliminary test absent", <<>>)

_statutory_authority(document) ==
    LET preliminary == document.preliminary_test
    IN  IF has_statutory_authority(preliminary) /\ ~preliminary.authority_is_ambiguous
        THEN CheckStatus(COMPLIANT, "Statutory authority recorded", <<>>)
        ELSE IF preliminary.authority_is_ambiguous /\ has_statutory_authority(preliminary)
        THEN CheckStatus(UNCLEAR, "Authority cited but basis described as ambiguous", <<>>)
        ELSE CheckStatus(NON_COMPLIANT, "Statutory authority for the preliminary test absent", <<>>)

_reason_to_believe(document) ==
    IF has_reason_to_believe(document.preliminary_test)
    THEN CheckStatus(COMPLIANT, "Reason to believe articulated", <<>>)
    ELSE CheckStatus(NON_COMPLIANT, "No s.49(1) reasonable belief particulars provided", <<>>)
\* _directions_language satisfied by the compliance wording alone.
_directions_language_wording_only(document) ==
    LET preliminary == document.preliminary_test
        missing ==
            (IF ~preliminary.directions_compliance_language
             THEN <<"\"in accordance with directions\" language">> ELSE <<>>)
    IN  IF missing = <<>>
        THEN CheckStatus(COMPLIANT, "Directions documented per s.55D(1)", <<>>)
        ELSE CheckStatus(NON_COMPLIANT, "Directions compliance not established", missing)

_directions_language(document) ==
    LET preliminary == document.preliminary_test
        missing ==
            (IF ~preliminary.directions_compliance_language
             THEN <<"\"in accordance with directions\" language">> ELSE <<>>)
            \o (IF ~preliminary.directions_documented
                THEN <<"record of directions given">> ELSE <<>>)
    IN  IF missing = <<>>
        THEN CheckStatus(COMPLIANT, "Directions documented per s.55D(1)", <<>>)
        ELSE CheckStatus(NON_COMPLIANT, "Directions compliance not established", missing)

\* _oral_directions leaving the question open when no oral directions were due.
_oral_directions_open_when_not_mandated(document) ==
    LET preliminary == document.preliminary_test
    IN  IF ~preliminary.subject_literate
        THEN IF preliminary.oral_directions_documented
             THEN CheckStatus(COMPLIANT, "Oral directions provided out of caution", <<>>)
             ELSE CheckStatus(UNCLEAR, "Oral directions not mandated", <<>>)
        ELSE IF preliminary.oral_directions_documented
        THEN CheckStatus(COMPLIANT, "Oral directions documented for literate subject", <<>>)
        ELSE CheckStatus(NON_COMPLIANT, "No record of oral directions for literate subject", <<>>)

_oral_directions(document) ==
    LET preliminary == document.preliminary_test
    IN  IF ~preliminary.subject_literate
        THEN IF preliminary.oral_directions_documented
             THEN CheckStatus(COMPLIANT, "Oral directions provided out of caution", <<>>)
             ELSE CheckStatus(COMPLIANT, "Oral directions not mandated", <<>>)
        ELSE IF preliminary.oral_directions_documented
        THEN CheckStatus(COMPLIANT, "Oral directions documented for literate subject", <<>>)
        ELSE CheckStatus(NON_COMPLIANT, "No record of oral directions for literate subject", <<>>)

_proper_performance(document) ==
    LET preliminary == document.preliminary_test
        missing ==
            (IF ~has_proper_performance_indicators(preliminary)
             THEN <<"performance indicators">> ELSE <<>>)
            \o (IF ~Truthy(preliminary.device_approval_number)
                THEN <<"device approval number">> ELSE <<>>)
            \o (IF ~calibration_complete(preliminary)
                THEN <<"calibration/maintenance records">> ELSE <<>>)
    IN  IF missing = <<>>
        THEN CheckStatus(COMPLIANT, "Proper performance established under s.55E", <<>>)
        ELSE CheckStatus(NON_COMPLIANT, "Proper performance information incomplete", missing)

_evidentiary_test(document) ==
    LET compliant == document.preliminary_test.evidentiary_test_compliant
    IN  IF compliant = Some(TRUE)
        THEN CheckStatus(COMPLIANT, "Evidentiary test requirements met", <<>>)
        ELSE IF compliant = Some(FALSE)
        THEN CheckStatus(NON_COMPLIANT, "Evidentiary test departed from statutory requirements", <<>>)
        ELSE CheckStatus(UNCLEAR, "No evidentiary test information recorded", <<>>)


\* _hearsay_flagged requiring both hearsay items and a documented review.
_hearsay_flagged_requiring_both(document) ==
    LET evidence == document.evidence
    IN  IF evidence.hearsay_items # <<>> /\ evidence.hearsay_review_documented
        THEN CheckStatus(COMPLIANT, "Hearsay issues identified under s.59", <<>>)
        ELSE CheckStatus(UNCLEAR, "No hearsay review documented", <<>>)

_hearsay_flagged(document) ==
    LET evidence == document.evidence
    IN  IF evidence.hearsay_items # <<>> \/ evidence.hearsay_review_documented
        THEN CheckStatus(COMPLIANT, "Hearsay issues identified under s.59", <<>>)
        ELSE CheckStatus(UNCLEAR, "No hearsay review documented", <<>>)

_hearsay_exceptions(document) ==
    LET evidence == document.evidence
        unsupported == hearsay_without_exception(evidence)
    IN  IF unsupported # <<>>
        THEN CheckStatus(NON_COMPLIANT, "Hearsay exception not demonstrated", unsupported)
        ELSE IF evidence.hearsay_items # <<>>
        THEN CheckStatus(COMPLIANT, "Hearsay exceptions articulated", <<>>)
        ELSE CheckStatus(COMPLIANT, "No hearsay evidence tendered", <<>>)


\* _business_records treating an empty list like _hearsay_exceptions does.
_business_records_none_tendered(document) ==
    LET evidence == document.evidence
        unsupported == business_records_without_foundation(evidence)
    IN  IF unsupported # <<>>
        THEN CheckStatus(NON_COMPLIANT, "Business records exception unsupported", unsupported)
        ELSE CheckStatus(COMPLIANT, "Business records foundation established", <<>>)

_business_records(document) ==
    LET evidence == document.evidence
        unsupported == business_records_without_foundation(evidence)
    IN  IF unsupported # <<>>
        THEN CheckStatus(NON_COMPLIANT, "Business records exception unsupported", unsupported)
        ELSE IF evidence.business_records # <<>>
        THEN CheckStatus(COMPLIANT, "Business records foundation established", <<>>)
        ELSE CheckStatus(UNCLEAR, "No business records disclosed", <<>>)

_section_137(document) ==
    LET evidence == document.evidence
    IN  IF evidence.s137_prejudice_factors # <<>>
        THEN IF evidence.s137_analysis_documented
             THEN CheckStatus(COMPLIANT, "s.137 balancing undertaken", <<>>)
             ELSE CheckStatus(UNCLEAR, "s.137 discretion triggered without documented balancing",
                              evidence.s137_prejudice_factors)
        ELSE CheckStatus(COMPLIANT, "No s.137 prejudice concerns raised", <<>>)

_section_138(document) ==
    LET evidence == document.evidence
    IN  IF has_unlawful_obtainment_risk(evidence)
        THEN CheckStatus(NON_COMPLIANT, "Potentially improperly obtained evidence with no mitigation",
                         evidence.s138_exclusion_factors)
        ELSE IF evidence.s138_exclusion_factors # <<>>
        THEN CheckStatus(UNCLEAR, "Improper obtainment issues noted with mitigation",
                         evidence.s138_exclusion_factors)
        ELSE CheckStatus(COMPLIANT, "No s.138 issues identified", <<>>)

\* StatutoryProvision(key, label, checker); checker names the evaluator.
StatutoryProvision(key, label, checker) ==
    [key |-> key, label |-> label, checker |-> checker]

PROVISIONS ==
    << StatutoryProvision("CPA_DISCLOSURE", "CPA 2009 Part 3.3 - Disclosure package", "_disclosure_items"),
       StatutoryProvision("CPA_STATEMENTS", "CPA 2009 Part 3.3 - Witness statements executed", "_statement_execution"),
       StatutoryProvision("CPA_TIMING", "CPA 2009 s.186 - Disclosure timing", "_disclosure_timing"),
       StatutoryProvision("CPA_EXHIBITS", "CPA 2009 Part 3.3 - Exhibit identification", "_exhibit_identification"),
       StatutoryProvision("RSA_AUTHORITY", "RSA 1986 s.49(1) - Statutory authority recorded", "_statutory_authority"),
       StatutoryProvision("RSA_REASON", "RSA 1986 s.49(1) - Reasonable belief articulated", "_reason_to_believe"),
       StatutoryProvision("RSA_55D1", "RSA 1986 s.55D(1) - Directions compliance", "_directions_language"),
       StatutoryProvision("RSA_55D2", "RSA 1986 s.55D(2) - Oral directions for literate subject", "_oral_directions"),
       StatutoryProvision("RSA_55E", "RSA 1986 s.55E - Proper performance", "_proper_performance"),
       StatutoryProvision("RSA_55_1", "RSA 1986 s.55(1) - Evidentiary test compliance", "_evidentiary_test"),
       StatutoryProvision("EA_59", "Evidence Act 2008 s.59 - Hearsay flagged", "_hearsay_flagged"),
       StatutoryProvision("EA_60_69", "Evidence Act 2008 ss.60-69 - Hearsay exceptions", "_hearsay_exceptions"),
       StatutoryProvision("EA_69", "Evidence Act 2008 s.69 - Business records foundation", "_business_records"),
       StatutoryProvision("EA_137", "Evidence Act 2008 s.137 - Probative vs prejudicial", "_section_137"),
       StatutoryProvision("EA_138", "Evidence Act 2008 s.138 - Improperly obtained evidence", "_section_138") >>

\* provision.checker(document)
checker(provision, document) ==
    CASE provision.checker = "_disclosure_items" -> _disclosure_items(document)
      [] provision.checker = "_statement_execution" -> _statement_execution(document)
      [] provision.checker = "_disclosure_timing" -> _disclosure_timing(document)
      [] provision.checker = "_exhibit_identification" -> _exhibit_identification(document)
      [] provision.checker = "_statutory_authority" -> _statutory_authority(document)
      [] provision.checker = "_reason_to_believe" -> _reason_to_believe(document)
      [] provision.checker = "_directions_language" -> _directions_language(document)
      [] provision.checker = "_oral_directions" -> _oral_directions(document)
      [] provision.checker = "_proper_performance" -> _proper_performance(document)
      [] provision.checker = "_evidentiary_test" -> _evidentiary_test(document)
      [] provision.checker = "_hearsay_flagged" -> _hearsay_flagged(document)
      [] provision.checker = "_hearsay_exceptions" -> _hearsay_exceptions(document)
      [] provision.checker = "_business_records" -> _business_records(document)
      [] provision.checker = "_section_137" -> _section_137(document)
      [] provision.checker = "_section_138" -> _section_138(document)

\* The dict comprehension of _evaluate_document: a later entry with the same
\* key replaces an earlier one.
RECURSIVE DictOf(_, _)
DictOf(provisions, document) ==
    IF provisions = <<>> THEN <<>>
    ELSE LET n == Len(provisions)
             init == DictOf(SubSeq(provisions, 1, n - 1), document)
             last == provisions[n]
         IN  [k \in DOMAIN init \cup {last.key} |->
                 IF k = last.key THEN checker(last, document) ELSE init[k]]


\* _evaluate_document behind a module-level cache keyed by the profile's
\* name, which every call fills on return (doc_b's entry written last).
_evaluate_document_cached(document) ==
    IF returned # <<>> /\ document.name = doc_b.name
    THEN LET last == returned[Len(returned)].cross_reference_matrix
         IN  [k \in {registry[i].key : i \in 1..Len(registry)} |->
                 last[CHOOSE i \in 1..Len(registry) : registry[i].key = k].doc_b]
    ELSE DictOf(registry, document)

_evaluate_document(document) == DictOf(registry, document)


\* _summarise_discrepancies comparing the missing items in one direction only
\* (missing_a - missing_b in place of missing_a ^ missing_b).
_summarise_discrepancies_one_sided(status_a, status_b) ==
    LET missing_a == ToSet(status_a.missing_items)
        missing_b == ToSet(status_b.missing_items)
        missing_diff == missing_a \ missing_b
        parts ==
            (IF status_a.status # status_b.status
             THEN <<"Status differs (Doc A: " \o colour(status_a.status)
                    \o ", Doc B: " \o colour(status_b.status) \o ")">>
             ELSE <<>>)
            \o (IF missing_diff # {}
                THEN <<"Missing elements differ: " \o Join(", ", Sorted(missing_diff))>>
                ELSE <<>>)
    IN  IF parts # <<>> THEN Join("; ", parts) ELSE "None"

_summarise_discrepancies(status_a, status_b) ==
    LET missing_a == ToSet(status_a.missing_items)
        missing_b == ToSet(status_b.missing_items)
        missing_diff == (missing_a \ missing_b) \cup (missing_b \ missing_a)
        parts ==
            (IF status_a.status # status_b.status
             THEN <<"Status differs (Doc A: " \o colour(status_a.status)
                    \o ", Doc B: " \o colour(status_b.status) \o ")">>
             ELSE <<>>)
            \o (IF missing_diff # {}
                THEN <<"Missing elements differ: " \o Join(", ", Sorted(missing_diff))>>
                ELSE <<>>)
    IN  IF parts # <<>> THEN Join("; ", parts) ELSE "None"


\* _action_required producing an action for NON_COMPLIANT statuses only.
_action_required_red_only(label, status) ==
    IF status.status # NON_COMPLIANT THEN ""
    ELSE IF status.missing_items # <<>>
    THEN label \o ": obtain " \o Join(", ", status.missing_items)
    ELSE label \o ": rectify " \o Lower(status.message)
\* _action_required asking to rectify whatever lacks missing items.
_action_required_rectify_unclear(label, status) ==
    IF status.status = COMPLIANT THEN ""
    ELSE IF status.missing_items # <<>>
    THEN LET requirement == Join(", ", status.missing_items)
             verb == IF status.status = NON_COMPLIANT THEN "obtain" ELSE "clarify"
         IN  label \o ": " \o verb \o " " \o requirement
    ELSE label \o ": " \o "rectify" \o " " \o Lower(status.message)

_action_required(label, status) ==
    IF status.status = COMPLIANT THEN ""
    ELSE IF status.missing_items # <<>>
    THEN LET requirement == Join(", ", status.missing_items)
             verb == IF status.status = NON_COMPLIANT THEN "obtain" ELSE "clarify"
         IN  label \o ": " \o verb \o " " \o requirement
    ELSE LET verb == IF status.status = NON_COMPLIANT THEN "rectify" ELSE "clarify"
         IN  label \o ": " \o verb \o " " \o Lower(status.message)

\* CrossReferenceRow for one provision
CrossReferenceRow(provision, status_a, status_b) ==
    LET actions == SelectSeq(<<_action_required("Doc A", status_a),
                               _action_required("Doc B", status_b)>>,
                             LAMBDA action : action # "")
    IN  [statutory_provision |-> provision.label,
         doc_a |-> status_a,
         doc_b |-> status_b,
         discrepancies |-> _summarise_discrepancies(status_a, status_b),
         action_required |-> IF actions # <<>> THEN Join(" | ", actions) ELSE "None"]


\* _build_cross_reference reading both columns of a row from results_a.
_build_cross_reference_one_column(a, b) ==
    LET results_a == _evaluate_document(a)
    IN  [i \in 1..Len(registry) |->
            CrossReferenceRow(registry[i], results_a[registry[i].key],
                              results_a[registry[i].key])]

_build_cross_reference(a, b) ==
    LET results_a == _evaluate_document(a)
        results_b == _evaluate_document(b)
    IN  [i \in 1..Len(registry) |->
            CrossReferenceRow(registry[i], results_a[registry[i].key],
                              results_b[registry[i].key])]

_detect_vague_temporal_references(preliminary) ==
    LET candidates == SelectSeq(<<preliminary.test_time, preliminary.driving_time>>, Truthy)
        tokens == {"approx", "about", "circa", "unknown", "around"}
    IN  IF \E i \in 1..Len(candidates) :
              \E token \in tokens : Contains(Lower(candidates[i][1]), token)
        THEN TRUE
        ELSE preliminary.time_reference_notes # <<>>

\* One Defect if the condition holds, none otherwise.
DefectIf(condition, defect) == IF condition THEN <<defect>> ELSE <<>>

\* _identify_doc_defects testing exhibits_identified for the exhibit defect.
_identify_doc_defects_unidentified_exhibits(document) ==
    LET name == document.name
        prelim == document.preliminary_test
        disclosure == document.disclosure
        evidence == document.evidence
        unsigned == unsigned_or_undated_statements(disclosure)
        mandatory_missing == missing_mandatory_items(disclosure)
        without_exception == hearsay_without_exception(evidence)
        normalised_steps == normalised_procedures(document)
        core_steps == {"vehicle stop", "directions provided", "test administered",
                       "results recorded"}
        missing_steps == Sorted({step \in core_steps : step \notin normalised_steps})
    IN  DefectIf(~has_statutory_authority(prelim),
                 Defect(name, "Missing statutory authority for preliminary test", HIGH,
                        Some("RSA 1986 s.49(1)")))
        \o DefectIf(~has_reason_to_believe(prelim),
                 Defect(name, "Absent reason to believe justification", HIGH,
                        Some("RSA 1986 s.49(1)")))
        \o DefectIf(~prelim.directions_documented,
                 Defect(name, "No evidence of directions given", HIGH, Some("RSA 1986 s.55D")))
        \o DefectIf(~has_proper_performance_indicators(prelim),
                 Defect(name, "Missing proper performance indicators", HIGH,
                        Some("RSA 1986 s.55E")))
        \o DefectIf(unsigned # <<>>,
                 Defect(name, "Unsigned/undated witness statements: " \o Join(", ", unsigned),
                        HIGH, Some("CPA 2009 Part 3.3")))
        \o DefectIf(mandatory_missing # <<>>,
                 Defect(name, "Missing mandatory disclosure items: "
                              \o Join(", ", mandatory_missing),
                        HIGH, Some("CPA 2009 Part 3.3")))
        \o DefectIf(without_exception # <<>>,
                 Defect(name, "Hearsay without exception: " \o Join(", ", without_exception),
                        HIGH, Some("Evidence Act 2008")))
        \o DefectIf(has_unlawful_obtainment_risk(evidence),
                 Defect(name, "Indicators of unlawfully obtained evidence", HIGH,
                        Some("Evidence Act 2008 s.138")))
        \o DefectIf(_detect_vague_temporal_references(prelim),
                 Defect(name, "Vague temporal references in test chronology", MEDIUM,
                        Some("RSA 1986")))
        \o DefectIf(prelim.authority_is_ambiguous,
                 Defect(name, "Ambiguous authority claims", MEDIUM, Some("RSA 1986 s.49")))
        \o DefectIf(missing_steps # <<>>,
                 Defect(name, "Incomplete procedural description (missing: "
                              \o Join(", ", missing_steps) \o ")",
                        MEDIUM, None))
        \o DefectIf(disclosure.physical_exhibit_list_provided
                    /\ ~disclosure.exhibits_identified,
                 Defect(name, "Missing exhibit descriptions", MEDIUM, Some("CPA 2009 Part 3.3")))
        \o DefectIf(document.typographical_issues # <<>>,
                 Defect(name, "Typographical ambiguities: "
                              \o Join(", ", document.typographical_issues), LOW, None))
        \o DefectIf(document.terminology_issues # <<>>,
                 Defect(name, "Unclear terminology: "
                              \o Join(", ", document.terminology_issues), LOW, None))
        \o DefectIf(document.contextual_gaps # <<>>,
                 Defect(name, "Incomplete contextual details: "
                              \o Join(", ", document.contextual_gaps), LOW, None))

_identify_doc_defects(document) ==
    LET name == document.name
        prelim == document.preliminary_test
        disclosure == document.disclosure
        evidence == document.evidence
        unsigned == unsigned_or_undated_statements(disclosure)
        mandatory_missing == missing_mandatory_items(disclosure)
        without_exception == hearsay_without_exception(evidence)
        normalised_steps == normalised_procedures(document)
        core_steps == {"vehicle stop", "directions provided", "test administered",
                       "results recorded"}
        missing_steps == Sorted({step \in core_steps : step \notin normalised_steps})
    IN  DefectIf(~has_statutory_authority(prelim),
                 Defect(name, "Missing statutory authority for preliminary test", HIGH,
                        Some("RSA 1986 s.49(1)")))
        \o DefectIf(~has_reason_to_believe(prelim),
                 Defect(name, "Absent reason to believe justification", HIGH,
                        Some("RSA 1986 s.49(1)")))
        \o DefectIf(~prelim.directions_documented,
                 Defect(name, "No evidence of directions given", HIGH, Some("RSA 1986 s.55D")))
        \o DefectIf(~has_proper_performance_indicators(prelim),
                 Defect(name, "Missing proper performance indicators", HIGH,
                        Some("RSA 1986 s.55E")))
        \o DefectIf(unsigned # <<>>,
                 Defect(name, "Unsigned/undated witness statements: " \o Join(", ", unsigned),
                        HIGH, Some("CPA 2009 Part 3.3")))
        \o DefectIf(mandatory_missing # <<>>,
                 Defect(name, "Missing mandatory disclosure items: "
                              \o Join(", ", mandatory_missing),
                        HIGH, Some("CPA 2009 Part 3.3")))
        \o DefectIf(without_exception # <<>>,
                 Defect(name, "Hearsay without exception: " \o Join(", ", without_exception),
                        HIGH, Some("Evidence Act 2008")))
        \o DefectIf(has_unlawful_obtainment_risk(evidence),
                 Defect(name, "Indicators of unlawfully obtained evidence", HIGH,
                        Some("Evidence Act 2008 s.138")))
        \o DefectIf(_detect_vague_temporal_references(prelim),
                 Defect(name, "Vague temporal references in test chronology", MEDIUM,
                        Some("RSA 1986")))
        \o DefectIf(prelim.authority_is_ambiguous,
                 Defect(name, "Ambiguous authority claims", MEDIUM, Some("RSA 1986 s.49")))
        \o DefectIf(missing_steps # <<>>,
                 Defect(name, "Incomplete procedural description (missing: "
                              \o Join(", ", missing_steps) \o ")",
                        MEDIUM, None))
        \o DefectIf(disclosure.physical_exhibit_list_provided
                    /\ ~disclosure.exhibit_descriptions_complete,
                 Defect(name, "Missing exhibit descriptions", MEDIUM, Some("CPA 2009 Part 3.3")))
        \o DefectIf(document.typographical_issues # <<>>,
                 Defect(name, "Typographical ambiguities: "
                              \o Join(", ", document.typographical_issues), LOW, None))
        \o DefectIf(document.terminology_issues # <<>>,
                 Defect(name, "Unclear terminology: "
                              \o Join(", ", document.terminology_issues), LOW, None))
        \o DefectIf(document.contextual_gaps # <<>>,
                 Defect(name, "Incomplete contextual details: "
                              \o Join(", ", document.contextual_gaps), LOW, None))

\* for defect in defects: report.add(defect)
RECURSIVE AddAll(_, _)
AddAll(report, defects) ==
    IF defects = <<>> THEN report
    ELSE AddAll(add(report, Head(defects)), Tail(defects))

\* DateDefects without the test that both values are non-empty.
DateDefects_comparing_empty(a, b, keys) ==
    LET differing == SelectSeq(keys, LAMBDA key : a.key_dates[key] # b.key_dates[key])
    IN  [i \in 1..Len(differing) |->
            Defect("Doc A & Doc B",
                   "Inconsistent " \o differing[i] \o " date: Doc A "
                   \o a.key_dates[differing[i]] \o " vs Doc B " \o b.key_dates[differing[i]],
                   MEDIUM, None)]

\* DateDefects without the comparison of the two dates.
DateDefects_of_every_shared_date(a, b, keys) ==
    LET differing == SelectSeq(keys, LAMBDA key :
                        a.key_dates[key] # "" /\ b.key_dates[key] # "")
    IN  [i \in 1..Len(differing) |->
            Defect("Doc A & Doc B",
                   "Inconsistent " \o differing[i] \o " date: Doc A "
                   \o a.key_dates[differing[i]] \o " vs Doc B " \o b.key_dates[differing[i]],
                   MEDIUM, None)]

\* The cross-document defects of _identify_defects for the shared keys, in
\* the order given.
DateDefects(a, b, keys) ==
    LET differing == SelectSeq(keys, LAMBDA key :
                        a.key_dates[key] # "" /\ b.key_dates[key] # ""
                        /\ a.key_dates[key] # b.key_dates[key])
    IN  [i \in 1..Len(differing) |->
            Defect("Doc A & Doc B",
                   "Inconsistent " \o differing[i] \o " date: Doc A "
                   \o a.key_dates[differing[i]] \o " vs Doc B " \o b.key_dates[differing[i]],
                   MEDIUM, None)]
\* _identify_defects adding the defects of the second profile first.
_identify_defects_second_profile_first(a, b) ==
    LET shared_dates == DOMAIN a.key_dates \cap DOMAIN b.key_dates
    IN  AddAll(AddAll(AddAll(DefectReport, _identify_doc_defects(b)),
                      _identify_doc_defects(a)),
               DateDefects(a, b, Sorted(shared_dates)))

_identify_defects(a, b) ==
    LET shared_dates == DOMAIN a.key_dates \cap DOMAIN b.key_dates
    IN  AddAll(AddAll(AddAll(DefectReport, _identify_doc_defects(a)),
                      _identify_doc_defects(b)),
               DateDefects(a, b, Sorted(shared_dates)))

_targeted_omission(flag) == flag

\* _omissions reporting the differences in both directions (^ in place of -).
_omissions_bidirectional(a, b) ==
    LET elements_a == material_elements(a)
        elements_b == material_elements(b)
        statutory_a == normalised_statutory_refs(a)
        statutory_b == normalised_statutory_refs(b)
        facts_a == normalised_facts(a)
        facts_b == normalised_facts(b)
        steps_a == normalised_procedures(a)
        steps_b == normalised_procedures(b)
        targeted ==
            [s55d_in_accordance_language |->
                _targeted_omission(a.preliminary_test.directions_compliance_language
                                   /\ ~b.preliminary_test.directions_compliance_language),
             s49_reason_to_believe |->
                _targeted_omission(has_reason_to_believe(a.preliminary_test)
                                   /\ ~has_reason_to_believe(b.preliminary_test)),
             s55e_device_approval_number |->
                _targeted_omission(Truthy(a.preliminary_test.device_approval_number)
                                   /\ ~Truthy(b.preliminary_test.device_approval_number)),
             s55e_calibration_records |->
                _targeted_omission(calibration_complete(a.preliminary_test)
                                   /\ ~calibration_complete(b.preliminary_test)),
             test_vs_drive_time_alignment |->
                _targeted_omission(
                    (Truthy(a.preliminary_test.test_time) /\ Truthy(a.preliminary_test.driving_time))
                    /\ ~(Truthy(b.preliminary_test.test_time)
                         /\ Truthy(b.preliminary_test.driving_time)))]
    IN  [elements_only_in_a |-> Sorted((elements_a \ elements_b) \cup (elements_b \ elements_a)),
         statutory_refs_only_in_a |-> Sorted((statutory_a \ statutory_b) \cup (statutory_b \ statutory_a)),
         facts_only_in_a |-> Sorted((facts_a \ facts_b) \cup (facts_b \ facts_a)),
         procedures_only_in_a |-> Sorted((steps_a \ steps_b) \cup (steps_b \ steps_a)),
         targeted_omissions |-> targeted]

\* _omissions probing for either recorded time in place of both.
_omissions_time_either(a, b) ==
    LET elements_a == material_elements(a)
        elements_b == material_elements(b)
        statutory_a == normalised_statutory_refs(a)
        statutory_b == normalised_statutory_refs(b)
        facts_a == normalised_facts(a)
        facts_b == normalised_facts(b)
        steps_a == normalised_procedures(a)
        steps_b == normalised_procedures(b)
        targeted ==
            [s55d_in_accordance_language |->
                _targeted_omission(a.preliminary_test.directions_compliance_language
                                   /\ ~b.preliminary_test.directions_compliance_language),
             s49_reason_to_believe |->
                _targeted_omission(has_reason_to_believe(a.preliminary_test)
                                   /\ ~has_reason_to_believe(b.preliminary_test)),
             s55e_device_approval_number |->
                _targeted_omission(Truthy(a.preliminary_test.device_approval_number)
                                   /\ ~Truthy(b.preliminary_test.device_approval_number)),
             s55e_calibration_records |->
                _targeted_omission(calibration_complete(a.preliminary_test)
                                   /\ ~calibration_complete(b.preliminary_test)),
             test_vs_drive_time_alignment |->
                _targeted_omission(
                    (Truthy(a.preliminary_test.test_time) \/ Truthy(a.preliminary_test.driving_time))
                    /\ ~(Truthy(b.preliminary_test.test_time)
                         \/ Truthy(b.preliminary_test.driving_time)))]
    IN  [elements_only_in_a |-> Sorted(elements_a \ elements_b),
         statutory_refs_only_in_a |-> Sorted(statutory_a \ statutory_b),
         facts_only_in_a |-> Sorted(facts_a \ facts_b),
         procedures_only_in_a |-> Sorted(steps_a \ steps_b),
         targeted_omissions |-> targeted]

_omissions(a, b) ==
    LET elements_a == material_elements(a)
        elements_b == material_elements(b)
        statutory_a == normalised_statutory_refs(a)
        statutory_b == normalised_statutory_refs(b)
        facts_a == normalised_facts(a)
        facts_b == normalised_facts(b)
        steps_a == normalised_procedures(a)
        steps_b == normalised_procedures(b)
        targeted ==
            [s55d_in_accordance_language |->
                _targeted_omission(a.preliminary_test.directions_compliance_language
                                   /\ ~b.preliminary_test.directions_compliance_language),
             s49_reason_to_believe |->
                _targeted_omission(has_reason_to_believe(a.preliminary_test)
                                   /\ ~has_reason_to_believe(b.preliminary_test)),
             s55e_device_approval_number |->
                _targeted_omission(Truthy(a.preliminary_test.device_approval_number)
                                   /\ ~Truthy(b.preliminary_test.device_approval_number)),
             s55e_calibration_records |->
                _targeted_omission(calibration_complete(a.preliminary_test)
                                   /\ ~calibration_complete(b.preliminary_test)),
             test_vs_drive_time_alignment |->
                _targeted_omission(
                    (Truthy(a.preliminary_test.test_time) /\ Truthy(a.preliminary_test.driving_time))
                    /\ ~(Truthy(b.preliminary_test.test_time)
                         /\ Truthy(b.preliminary_test.driving_time)))]
    IN  [elements_only_in_a |-> Sorted(elements_a \ elements_b),
         statutory_refs_only_in_a |-> Sorted(statutory_a \ statutory_b),
         facts_only_in_a |-> Sorted(facts_a \ facts_b),
         procedures_only_in_a |-> Sorted(steps_a \ steps_b),
         targeted_omissions |-> targeted]

\* PhaseBReport(matrix, defects, omissions)
build_phase_b_report(a, b) ==
    [cross_reference_matrix |-> _build_cross_reference(a, b),
     defects |-> _identify_defects(a, b),
     omissions |-> _omissions(a, b)]


\* list.sort()
RECURSIVE SortInPlace(_)
SortInPlace(items) ==
    IF items = <<>> THEN <<>>
    ELSE LET i == CHOOSE i \in 1..Len(items) :
                    \A j \in 1..Len(items) : Rank(items[i]) <= Rank(items[j])
         IN  <<items[i]>> \o SortInPlace(SubSeq(items, 1, i - 1) \o SubSeq(items, i + 1, Len(items)))

\* The profile after a call in which the EA_138 row's missing_items, the
\* list object of evidence.s138_exclusion_factors, is sorted with sort().
ArgumentAfterCall_sorted_in_place(document) ==
    [document EXCEPT !.evidence.s138_exclusion_factors = SortInPlace(@)]

\* A profile argument as the call leaves it.  _section_137 and _section_138
\* put the profile's own list object into CheckStatus.missing_items, and no
\* statement of phase_b.py assigns to a field or mutates a list: join(),
\* set() and sorted() build new values.
ArgumentAfterCall(document) == document

(***************************************************************************)
(* Profiles the caller constructs.                                         *)
(***************************************************************************)
WitnessStatement(name, signed, dated, date) ==
    [name |-> name, signed |-> signed, dated |-> dated, date |-> date]

HearsayEntry(description, exception_claimed, exception_supported) ==
    [description |-> description, exception_claimed |-> exception_claimed,
     exception_supported |-> exception_supported, business_record |-> FALSE]

BusinessRecordEntry(description, exception_established, foundation_details) ==
    [description |-> description, exception_established |-> exception_established,
     foundation_details |-> foundation_details]

\* doc_a of tests/test_phase_b.py
TestDocA ==
    [name |-> "Doc A",
     disclosure |->
        [informant_statement_provided |-> TRUE,
         witness_statements |->
            << WitnessStatement("Constable Lee", TRUE, TRUE, Some("2024-05-01")),
               WitnessStatement("Witness Patel", TRUE, TRUE, Some("2024-05-02")) >>,
         prior_convictions_disclosed |-> TRUE,
         physical_exhibit_list_provided |-> TRUE,
         exhibits_identified |-> TRUE,
         exhibit_descriptions_complete |-> TRUE,
         disclosure_timing_compliant |-> Some(TRUE),
         timing_notes |-> Some("Served within statutory timeframe")],
     preliminary_test |->
        [statutory_authority |-> Some("RSA 1986 s.55(1)"),
         authority_is_ambiguous |-> FALSE,
         reason_to_believe_detail |-> Some("Smelt alcohol and observed lane weaving"),
         directions_compliance_language |-> TRUE,
         directions_documented |-> TRUE,
         oral_directions_documented |-> TRUE,
         subject_literate |-> TRUE,
         proper_performance_indicators |-> <<"Mouthpiece replaced", "Device warmed">>,
         evidentiary_test_compliant |-> Some(TRUE),
         device_approval_number |-> Some("AS12345"),
         calibration_records |-> <<"Calibration certificate 2024-04-01">>,
         maintenance_records |-> <<"Maintenance log 2024-03-20">>,
         test_time |-> Some("2024-05-10 22:15"),
         driving_time |-> Some("2024-05-10 21:55"),
         time_reference_notes |-> <<>>],
     evidence |->
        [hearsay_items |-> << HearsayEntry("Bystander statement", Some("s.65"), TRUE) >>,
         business_records |->
            << BusinessRecordEntry("Breathalyser maintenance log", TRUE,
                                   Some("Certified by custodian")) >>,
         hearsay_review_documented |-> TRUE,
         s137_analysis_documented |-> TRUE,
         s137_prejudice_factors |-> <<"Minimal prejudice">>,
         s138_exclusion_factors |-> <<>>,
         s138_mitigation_steps |-> <<>>],
     statutory_references |-> <<"CPA 2009 s.186", "RSA 1986 s.55D", "Evidence Act 2008 s.69">>,
     facts |-> <<"Driver admitted consuming alcohol", "Officer observed weaving">>,
     procedural_steps |-> <<"Vehicle stop", "Directions provided", "Test administered",
                            "Results recorded">>,
     key_dates |-> [offence |-> "2024-05-10", test |-> "2024-05-10"],
     terminology_issues |-> <<>>,
     typographical_issues |-> <<>>,
     contextual_gaps |-> <<>>]

\* doc_b of tests/test_phase_b.py
TestDocB ==
    [name |-> "Doc B",
     disclosure |->
        [informant_statement_provided |-> FALSE,
         witness_statements |-> << WitnessStatement("Constable Lee", FALSE, TRUE, None) >>,
         prior_convictions_disclosed |-> FALSE,
         physical_exhibit_list_provided |-> TRUE,
         exhibits_identified |-> FALSE,
         exhibit_descriptions_complete |-> FALSE,
         disclosure_timing_compliant |-> Some(FALSE),
         timing_notes |-> Some("Served five days late")],
     preliminary_test |->
        [statutory_authority |-> None,
         authority_is_ambiguous |-> TRUE,
         reason_to_believe_detail |-> Some(""),
         directions_compliance_language |-> FALSE,
         directions_documented |-> FALSE,
         oral_directions_documented |-> FALSE,
         subject_literate |-> TRUE,
         proper_performance_indicators |-> <<>>,
         evidentiary_test_compliant |-> None,
         device_approval_number |-> None,
         calibration_records |-> <<>>,
         maintenance_records |-> <<>>,
         test_time |-> Some("Approx 22:00"),
         driving_time |-> None,
         time_reference_notes |-> <<"Officer unsure of driving time">>],
     evidence |->
        [hearsay_items |-> << HearsayEntry("Neighbour recount", None, FALSE) >>,
         business_records |-> << BusinessRecordEntry("Maintenance log", FALSE, None) >>,
         hearsay_review_documented |-> FALSE,
         s137_analysis_documented |-> FALSE,
         s137_prejudice_factors |-> <<"Highly prejudicial character evidence">>,
         s138_exclusion_factors |-> <<"Failure to caution">>,
         s138_mitigation_steps |-> <<>>],
     statutory_references |-> <<"CPA 2009">>,
     facts |-> <<"Driver admitted consuming alcohol">>,
     procedural_steps |-> <<"Vehicle stop">>,
     key_dates |-> [offence |-> "2024-05-11"],
     terminology_issues |-> <<"Reference to 'sample' undefined">>,
     typographical_issues |-> <<"Date recorded as 2024-05-0">>,
     contextual_gaps |-> <<"No chain of custody narrative">>]

\* A profile built with every dataclass default (informant_statement_provided,
\* which has none, False).
DefaultDoc ==
    [name |-> "Doc",
     disclosure |->
        [informant_statement_provided |-> FALSE,
         witness_statements |-> <<>>,
         prior_convictions_disclosed |-> FALSE,
         physical_exhibit_list_provided |-> FALSE,
         exhibits_identified |-> FALSE,
         exhibit_descriptions_complete |-> FALSE,
         disclosure_timing_compliant |-> None,
         timing_notes |-> None],
     preliminary_test |->
        [statutory_authority |-> None,
         authority_is_ambiguous |-> FALSE,
         reason_to_believe_detail |-> None,
         directions_compliance_language |-> FALSE,
         directions_documented |-> FALSE,
         oral_directions_documented |-> FALSE,
         subject_literate |-> TRUE,
         proper_performance_indicators |-> <<>>,
         evidentiary_test_compliant |-> None,
         device_approval_number |-> None,
         calibration_records |-> <<>>,
         maintenance_records |-> <<>>,
         test_time |-> None,
         driving_time |-> None,
         time_reference_notes |-> <<>>],
     evidence |->
        [hearsay_items |-> <<>>,
         business_records |-> <<>>,
         hearsay_review_documented |-> FALSE,
         s137_analysis_documented |-> FALSE,
         s137_prejudice_factors |-> <<>>,
         s138_exclusion_factors |-> <<>>,
         s138_mitigation_steps |-> <<>>],
     statutory_references |-> <<>>,
     facts |-> <<>>,
     procedural_steps |-> <<>>,
     key_dates |-> <<>>,
     terminology_issues |-> <<>>,
     typographical_issues |-> <<>>,
     contextual_gaps |-> <<>>]

BaseDocs == {TestDocA, TestDocB, DefaultDoc}

OptionalBool == {None, Some(TRUE), Some(FALSE)}

Statements ==
    { WitnessStatement("Constable Lee", TRUE, TRUE, Some("2024-05-01")),
      WitnessStatement("Constable Lee", FALSE, TRUE, None),
      WitnessStatement("Witness Patel", TRUE, FALSE, None) }

\* Profiles differing from a base in the mandatory disclosure items.
DisclosureItemDocs ==
    { [base EXCEPT !.disclosure.informant_statement_provided = informant,
                   !.disclosure.witness_statements = statements,
                   !.disclosure.prior_convictions_disclosed = prior,
                   !.disclosure.physical_exhibit_list_provided = exhibits] :
        base \in {TestDocA}, informant \in BOOLEAN,
        statements \in SeqsUpTo(Statements, MaxList),
        prior \in BOOLEAN, exhibits \in BOOLEAN }

\* Profiles differing from a base in the exhibit flags.
ExhibitDocs ==
    { [base EXCEPT !.disclosure.physical_exhibit_list_provided = listed,
                   !.disclosure.exhibits_identified = identified,
                   !.disclosure.exhibit_descriptions_complete = described] :
        base \in {TestDocA, TestDocB}, listed \in BOOLEAN, identified \in BOOLEAN,
        described \in BOOLEAN }

\* Profiles differing from a base in the nullable compliance flags.
NullableFlagDocs ==
    { [base EXCEPT !.disclosure.disclosure_timing_compliant = timing,
                   !.disclosure.timing_notes = notes,
                   !.preliminary_test.evidentiary_test_compliant = evidentiary] :
        base \in {TestDocA, TestDocB}, timing \in OptionalBool,
        notes \in {None, Some(""), Some("Served five days late")},
        evidentiary \in OptionalBool }

\* Profiles differing from a base in the s.49(1) authority and belief fields.
AuthorityDocs ==
    { [base EXCEPT !.preliminary_test.statutory_authority = authority,
                   !.preliminary_test.authority_is_ambiguous = ambiguous,
                   !.preliminary_test.reason_to_believe_detail = reason] :
        base \in {TestDocA, TestDocB},
        authority \in {None, Some(""), Some("  "), Some(" s.49 "), Some("RSA 1986 s.55(1)")},
        ambiguous \in BOOLEAN,
        reason \in {None, Some(""), Some("   "), Some(" Lane weaving ")} }

\* Profiles differing from a base in the s.55D directions fields.
DirectionsDocs ==
    { [base EXCEPT !.preliminary_test.directions_compliance_language = language,
                   !.preliminary_test.directions_documented = documented,
                   !.preliminary_test.oral_directions_documented = oral,
                   !.preliminary_test.subject_literate = literate] :
        base \in {TestDocA, TestDocB}, language \in BOOLEAN, documented \in BOOLEAN,
        oral \in BOOLEAN, literate \in BOOLEAN }

\* Profiles differing from a base in the s.55E fields.
PerformanceDocs ==
    { [base EXCEPT !.preliminary_test.proper_performance_indicators = indicators,
                   !.preliminary_test.device_approval_number = approval,
                   !.preliminary_test.calibration_records = calibration,
                   !.preliminary_test.maintenance_records = maintenance] :
        base \in {TestDocA, TestDocB},
        indicators \in SeqsUpTo({"Mouthpiece replaced"}, MaxList),
        approval \in {None, Some(""), Some("AS12345")},
        calibration \in {<<>>, <<"Calibration certificate 2024-04-01">>},
        maintenance \in {<<>>, <<"Maintenance log 2024-03-20">>} }

HearsayEntries ==
    { HearsayEntry("Bystander statement", Some("s.65"), TRUE),
      HearsayEntry("Bystander statement", Some("s.65"), FALSE),
      HearsayEntry("Neighbour recount", None, TRUE) }

\* Profiles differing from a base in the hearsay fields.
HearsayDocs ==
    { [base EXCEPT !.evidence.hearsay_items = items,
                   !.evidence.hearsay_review_documented = reviewed] :
        base \in {TestDocA, TestDocB},
        items \in SeqsUpTo(HearsayEntries, MaxList), reviewed \in BOOLEAN }

BusinessRecordEntries ==
    { BusinessRecordEntry("Breathalyser maintenance log", TRUE, Some("Certified by custodian")),
      BusinessRecordEntry("Maintenance log", FALSE, None),
      BusinessRecordEntry("Calibration certificate", FALSE, None) }

\* Profiles differing from a base in the business records.
BusinessRecordDocs ==
    { [base EXCEPT !.evidence.business_records = records] :
        base \in {TestDocA, TestDocB},
        records \in SeqsUpTo(BusinessRecordEntries, MaxList) }

\* Profiles differing from a base in the s.137 fields.
Section137Docs ==
    { [base EXCEPT !.evidence.s137_prejudice_factors = factors,
                   !.evidence.s137_analysis_documented = analysed] :
        base \in {TestDocA, TestDocB},
        factors \in SeqsUpTo({"Minimal prejudice", "Highly prejudicial character evidence"}, MaxList),
        analysed \in BOOLEAN }

\* Profiles differing from a base in the s.138 fields.
Section138Docs ==
    { [base EXCEPT !.evidence.s138_exclusion_factors = factors,
                   !.evidence.s138_mitigation_steps = steps] :
        base \in {TestDocA, TestDocB},
        factors \in SeqsUpTo({"Failure to caution", "Blood sample mishandled"}, MaxList),
        steps \in {<<>>, <<"Caution repeated at station">>} }

\* Profiles differing from a base in the recorded test and driving times.
TimeDocs ==
    { [base EXCEPT !.preliminary_test.test_time = test,
                   !.preliminary_test.driving_time = driving,
                   !.preliminary_test.time_reference_notes = notes] :
        base \in {TestDocA, TestDocB},
        test \in {None, Some(""), Some("2024-05-10 22:15"), Some("Approx 22:00")},
        driving \in {None, Some(""), Some("2024-05-10 21:55"), Some("About 21:50")},
        notes \in {<<>>, <<"Officer unsure of driving time">>} }

\* Profiles differing from a base in the statutory references.
ReferenceDocs ==
    { [base EXCEPT !.statutory_references = references] :
        base \in {TestDocA, TestDocB},
        references \in SeqsUpTo({"CPA 2009", " cpa 2009 ", "  "}, MaxList) }

\* Profiles differing from a base in the facts.
FactDocs ==
    { [base EXCEPT !.facts = facts] :
        base \in {TestDocA, TestDocB},
        facts \in SeqsUpTo({"Officer observed weaving", " officer observed weaving ", ""},
                           MaxList) }

\* Profiles differing from a base in the procedural steps.
StepDocs ==
    { [base EXCEPT !.procedural_steps = steps] :
        base \in {TestDocA, TestDocB},
        steps \in SeqsUpTo({" vehicle stop ", "TEST ADMINISTERED", "   "}, MaxList) }

\* Profiles whose procedural steps hold the four core phrases, or all but
\* one, in another order, case and padding than the test's Doc A.
CoreStepDocs ==
    { [base EXCEPT !.procedural_steps = steps] :
        base \in {TestDocA, TestDocB},
        steps \in { <<" results recorded ", "TEST ADMINISTERED", "Directions provided", " vehicle stop ">>,
                    <<"TEST ADMINISTERED", "   ", "Results recorded", " vehicle stop ", "Directions provided">>,
                    <<"Vehicle stop", " vehicle stop ", "TEST ADMINISTERED", " results recorded ">> } }

\* The key_dates mappings over the keys "offence" and "test".
KeyDates ==
    UNION { [keys -> {"", "2024-05-10", "2024-05-11"}] : keys \in SUBSET {"offence", "test"} }

\* Profiles differing from a base in the key dates.
KeyDateDocs ==
    { [base EXCEPT !.key_dates = dates] : base \in {TestDocA, TestDocB}, dates \in KeyDates }

\* Profiles differing from a base in three of the probed fields.
ProbeDocs(base) ==
    { [base EXCEPT !.preliminary_test.directions_compliance_language = language,
                   !.preliminary_test.device_approval_number = approval,
                   !.preliminary_test.driving_time = driving] :
        language \in BOOLEAN, approval \in {None, Some("AS12345")},
        driving \in {None, Some("2024-05-10 21:55")} }

Profiles ==
    DisclosureItemDocs \cup ExhibitDocs \cup NullableFlagDocs \cup AuthorityDocs
    \cup DirectionsDocs
    \cup PerformanceDocs \cup HearsayDocs \cup BusinessRecordDocs
    \cup Section137Docs \cup Section138Docs
    \cup TimeDocs \cup ReferenceDocs \cup FactDocs \cup StepDocs \cup CoreStepDocs
    \cup KeyDateDocs

(***************************************************************************)
(* legal_interpretation: Phase C harmonisation.                            *)
(*                                                                         *)
(* The dict `applications` is the sequence of its items in insertion       *)
(* order, each a record of the key and the value.                          *)
(***************************************************************************)
ProvisionApplication(document_name, requirements_satisfied, statutory_support) ==
    [document_name |-> document_name,
     facts |-> "Officer Smith recorded that directions under s 55D(2) were read aloud.",
     requirements_satisfied |-> requirements_satisfied,
     deficiency |-> None,
     legal_consequence |-> None,
     preferred_argument |-> "purposive",
     statutory_support |-> statutory_support]

\* StatutoryProvision.identifier
identifier(self) == Strip(self.statute \o " " \o self.section)

HarmonizationResult(provision_id, status, analysis, supporting, prevailing) ==
    [provision_id |-> provision_id, status |-> status, analysis |-> analysis,
     statutory_supporting_document |-> supporting,
     prevailing_document |-> prevailing]

\* list(provision.applications.values())
values(items) == [i \in 1..Len(items) |-> items[i].value]

\* PhaseCInterpreter._pairwise: the pairs in the order the generator yields them
RECURSIVE PairsFrom(_, _, _)
PairsFrom(applications, i, j) ==
    IF i > Len(applications) THEN <<>>
    ELSE IF j > Len(applications) THEN PairsFrom(applications, i + 1, i + 2)
    ELSE <<<<applications[i], applications[j]>>>> \o PairsFrom(applications, i, j + 1)

_pairwise(applications) == PairsFrom(applications, 1, 2)

\* PhaseCInterpreter._compare_applications
_compare_applications(provision_id, first, second) ==
    IF first.requirements_satisfied = second.requirements_satisfied
    THEN HarmonizationResult(provision_id, "Aligned",
            "Both " \o first.document_name \o " and " \o second.document_name
                \o " treat " \o provision_id \o " consistently.",
            None, None)
    ELSE LET conflict == "Conflict identified: applying purposive construction and the generalia specialibus principle."
             differ == first.statutory_support # second.statutory_support
             supporting_doc ==
                IF differ
                THEN Some(IF first.statutory_support THEN first.document_name
                          ELSE second.document_name)
                ELSE None
             prevailing_doc ==
                IF differ THEN supporting_doc
                ELSE Some(IF first.requirements_satisfied THEN first.document_name
                          ELSE second.document_name)
             rationale ==
                IF differ
                THEN supporting_doc[1] \o " cites statutory directions that align with the specific Victorian requirements."
                ELSE "Neither document demonstrates clear statutory backing; prefer "
                        \o prevailing_doc[1]
                        \o " because it better advances the legislative purpose under s 35(a)."
         IN  HarmonizationResult(provision_id,
                IF Truthy(supporting_doc) THEN "Resolved" ELSE "Uncertain",
                Join(" ", <<conflict, rationale>>), supporting_doc, prevailing_doc)

\* PhaseCInterpreter._harmonise_documents
RECURSIVE _harmonise_documents(_)
_harmonise_documents(provisions) ==
    IF provisions = <<>> THEN <<>>
    ELSE LET provision == Head(provisions)
             doc_applications == values(provision.applications)
             doc_pairs == _pairwise(doc_applications)
             results ==
                IF Len(doc_applications) < 2 THEN <<>>
                ELSE [k \in 1..Len(doc_pairs) |->
                        _compare_applications(identifier(provision),
                                              doc_pairs[k][1], doc_pairs[k][2])]
         IN  results \o _harmonise_documents(Tail(provisions))

\* The keys under which applications are inserted, in insertion order.
ApplicationKeys == <<"Doc A", "Doc B", "Doc C", "Doc D">>

\* The applications a document may make: a name, possibly empty, and the two flags.
Applications ==
    {ProvisionApplication(document_name, requirements_satisfied, statutory_support) :
        document_name \in {"Doc A", "Doc B", ""},
        requirements_satisfied \in BOOLEAN, statutory_support \in BOOLEAN}

\* The provisions of the model: up to MaxApplications applications each.
Provisions ==
    {[statute |-> heading[1], section |-> heading[2],
      applications |-> [i \in 1..Len(made) |-> [key |-> ApplicationKeys[i], value |-> made[i]]]] :
        heading \in {<<"Road Safety Act 1986 (Vic)", "s 55D">>,
                     <<"Road Safety Act 1986 (Vic)", "">>},
        made \in SeqsUpTo(Applications, MaxApplications)}

\* tests/test_phase_c.py: _sample_provision, as far as harmonisation reads it
_sample_provision ==
    [statute |-> "Road Safety Act 1986 (Vic)", section |-> "s 55D",
     applications |->
        << [key |-> "Doc A", value |-> ProvisionApplication("Doc A", TRUE, TRUE)],
           [key |-> "Doc B", value |-> ProvisionApplication("Doc B", FALSE, FALSE)] >>]

\* No provisions have been harmonised.
PhaseCIdle(given) ==
    /\ interpreted = given
    /\ harmonisation = None

(***************************************************************************)
(* court_knowledge.py: the procedure stages and the disclosure matrix.     *)
(*                                                                         *)
(* The values of a `provided` mapping are written as Python literals       *)
(* ("True", "None", "'no'", ...); bool() is tabulated over them.           *)
(***************************************************************************)
KeyError == "KeyError"

ChecklistItem(key, description, statute) ==
    [key |-> key, description |-> description, statute |-> statute, notes |-> None]

ProcedureStage(name, items) == [name |-> name, items |-> items]

CONTEST_MENTION_STAGE ==
    ProcedureStage("contest_mention",
        << ChecklistItem("charge_sheet_filed", "Prosecution filed charge sheet",
                         Some("Criminal Procedure Act 2009 (Vic) s.6")),
           ChecklistItem("disclosure_provided_in_time", "Disclosure provided within timeframes",
                         Some("Criminal Procedure Act 2009 (Vic) s.186")),
           ChecklistItem("defence_plea_indicated", "Defence indicated plea", None),
           ChecklistItem("defence_notice_of_defences", "Defence provided notice of defences",
                         Some("Criminal Procedure Act 2009 (Vic) s.185")) >>)

SUMMARY_CASE_CONFERENCE ==
    ProcedureStage("summary_case_conference",
        << ChecklistItem("issues_identified", "Issues identified and narrowed", None),
           ChecklistItem("admissions_made", "Admissions made", None),
           ChecklistItem("disclosure_complete", "Disclosure complete", None) >>)

SUMMARY_HEARING_STAGE ==
    ProcedureStage("summary_hearing",
        << ChecklistItem("prosecution_case_outline", "Prosecution case outline filed", None),
           ChecklistItem("witness_availability_confirmed", "Witness availability confirmed", None),
           ChecklistItem("voir_dire_foreshadowed", "Voir dire applications foreshadowed", None) >>)

\* MagistratesCourtProcedureChecker.__init__: self.stages
stages ==
    LET all == {CONTEST_MENTION_STAGE, SUMMARY_CASE_CONFERENCE, SUMMARY_HEARING_STAGE}
    IN  [stage_name \in {stage.name : stage \in all} |->
            CHOOSE stage \in all : stage.name = stage_name]

DISCLOSURE_COMPLIANCE_MATRIX ==
    LET s185 == Some("Criminal Procedure Act 2009 (Vic) s.185")
        s186 == Some("Criminal Procedure Act 2009 (Vic) s.186")
        s187 == Some("Criminal Procedure Act 2009 (Vic) s.187")
    IN  [section \in {"prosecution", "defence"} |->
            IF section = "prosecution"
            THEN << ChecklistItem("informant_statement", "Copy of informant's statement", s187),
                    ChecklistItem("witness_statements", "Copies of all witness statements", s187),
                    ChecklistItem("exhibit_list", "List of exhibits", s187),
                    ChecklistItem("accused_priors", "Accused's prior convictions", s187),
                    ChecklistItem("exculpatory_material", "Any exculpatory material", s187),
                    ChecklistItem("prosecution_timing", "Timing compliance", s186) >>
            ELSE << ChecklistItem("alibi_notice", "Alibi notice (if applicable)", s185),
                    ChecklistItem("expert_evidence_notice", "Expert evidence notice", s185),
                    ChecklistItem("defence_witnesses", "Witnesses to be called", s185),
                    ChecklistItem("defence_timing", "Timing compliance", s185) >>]

\* bool(value) of a Python literal
bool(value) == value \in {"True", "1", "'no'"}

\* Mapping.get(key): the value, or None for a key the mapping lacks
get(mapping, key) == IF key \in DOMAIN mapping THEN mapping[key] ELSE "None"

\* The items of a checklist that `provided` does not mark as present.
Missing(items, mapping) == SelectSeq(items, LAMBDA item : ~bool(get(mapping, item.key)))

\* evaluate_stage answering an unknown stage name with an empty list.
evaluate_stage_defaulting(stage_name, mapping) ==
    IF stage_name \notin DOMAIN stages
    THEN Returns(<<>>)
    ELSE Returns(Missing(stages[stage_name].items, mapping))

evaluate_stage(stage_name, mapping) ==
    IF stage_name \notin DOMAIN stages
    THEN Raises(KeyError)
    ELSE Returns(Missing(stages[stage_name].items, mapping))

evaluate_disclosure_section(section, mapping) ==
    IF section \notin DOMAIN DISCLOSURE_COMPLIANCE_MATRIX
    THEN Raises(KeyError)
    ELSE Returns(Missing(DISCLOSURE_COMPLIANCE_MATRIX[section], mapping))

\* The names a caller asks for: the known ones, and names that are not keys.
RequestedNames ==
    DOMAIN stages \cup DOMAIN DISCLOSURE_COMPLIANCE_MATRIX
    \cup {"", "Contest_Mention", " prosecution", "trial"}

\* Keys a caller's mapping may hold: at least one of every checklist, and one of none.
ProvidedKeys ==
    {"charge_sheet_filed", "defence_plea_indicated", "issues_identified",
     "voir_dire_foreshadowed", "exhibit_list", "defence_timing", "unrelated"}

\* The mappings a caller passes: booleans under any of the keys, or one
\* value of another type.
ProvidedMappings ==
    UNION {[keys -> {"True", "False"}] : keys \in SUBSET ProvidedKeys}
    \cup UNION {[{key} -> {"None", "0", "1", "''", "'no'"}] : key \in ProvidedKeys}

\* No checklist has been evaluated.
ChecklistIdle(asked, mapping) ==
    /\ requested = asked
    /\ provided = mapping
    /\ answer = None

(***************************************************************************)
(* court_knowledge.py: OutcomeTracker.                                     *)
(*                                                                         *)
(* The text of the storage file is a record: raw is the text as far as it  *)
(* is not an outcome log, and outcomes is the JSON array of a log          *)
(* {"outcomes": [...]}.  In JSON an absent optional value is the token     *)
(* null and a string is written in quotes.  Path.write_text is taken as    *)
(* one step, and successive datetime.now() readings as distinct.           *)
(***************************************************************************)
Callers == {"caller 1", "caller 2"}

JSONDecodeError == "JSONDecodeError"

AttributeError == "AttributeError"

LogText(array) == [raw |-> "{\"outcomes\": [...]}", outcomes |-> array]

OtherText(raw) == [raw |-> raw, outcomes |-> <<>>]

\* The optional strings and the string lists the callers pass.
OptionalStrings ==
    { "Court accepted absence of evidence on directions.",
      "Prosecution to tender training logs in future.",
      "Court satisfied maintenance was implied." }

Quote(s) == "\"" \o s \o "\""

Unquote(q) == CHOOSE s \in OptionalStrings : Quote(s) = q

OptionalFields == {"judicial_response", "remediation_strategy", "notes"}

\* json.dumps of one entry: None becomes null, a string is quoted.
EntryToJson(e) ==
    [f \in DOMAIN e |->
        IF f \in OptionalFields
        THEN IF e[f] = None THEN "null" ELSE Quote(e[f][1])
        ELSE e[f]]

\* json.loads of one entry
EntryFromJson(object) ==
    [f \in DOMAIN object |->
        IF f \in OptionalFields
        THEN IF object[f] = "null" THEN None ELSE Some(Unquote(object[f]))
        ELSE object[f]]

\* json.dumps(payload, indent=2, sort_keys=True) of {"outcomes": [...]}
dumps(payload) ==
    LogText([i \in 1..Len(payload.outcomes) |-> EntryToJson(payload.outcomes[i])])


\* json.loads reading a text that is not JSON as an empty object.
loads_lenient(text) ==
    CASE text.raw \in {"", "{\"outcomes\": [", "{}"} -> Returns([object |-> TRUE, keys |-> {}, outcomes |-> <<>>])
      [] text.raw = "[]" -> Returns([object |-> FALSE, keys |-> {}, outcomes |-> <<>>])
      [] OTHER ->
            Returns([object |-> TRUE, keys |-> {"outcomes"},
                     outcomes |-> [i \in 1..Len(text.outcomes) |->
                                      EntryFromJson(text.outcomes[i])]])

\* json.loads: the parsed value, or JSONDecodeError for a text that is not JSON
\* (an empty file, a truncated log).
loads(text) ==
    CASE text.raw \in {"", "{\"outcomes\": ["} -> Raises(JSONDecodeError)
      [] text.raw = "[]" -> Returns([object |-> FALSE, keys |-> {}, outcomes |-> <<>>])
      [] text.raw = "{}" -> Returns([object |-> TRUE, keys |-> {}, outcomes |-> <<>>])
      [] OTHER ->
            Returns([object |-> TRUE, keys |-> {"outcomes"},
                     outcomes |-> [i \in 1..Len(text.outcomes) |->
                                      EntryFromJson(text.outcomes[i])]])

\* OutcomeTracker._read_outcomes: list(data.get("outcomes", []))
_read_outcomes(text) ==
    LET data == loads(text)
    IN  IF data.raised # None THEN data
        ELSE IF ~data.value[1].object THEN Raises(AttributeError)
        ELSE IF "outcomes" \in data.value[1].keys THEN Returns(data.value[1].outcomes)
        ELSE Returns(<<>>)

\* OutcomeTracker._write_outcomes: the text written to the storage file
_write_outcomes(list) == dumps([outcomes |-> list])

\* datetime.isoformat() of the n-th reading of the clock
isoformat(n) ==
    CASE n = 0 -> "2024-05-09T09:00:00+00:00"
      [] n = 1 -> "2024-05-10T09:00:00+00:00"
      [] n = 2 -> "2024-05-11T09:00:00+00:00"
      [] n = 3 -> "2024-05-12T09:00:00+00:00"
      [] n = 4 -> "2024-05-13T09:00:00+00:00"

\* The arguments of a record_outcome call
Arguments(defect_type, result, accepted, rejected, judicial, remediation, notes) ==
    [defect_type |-> defect_type, result |-> result, arguments_accepted |-> accepted,
     arguments_rejected |-> rejected, judicial_response |-> judicial,
     remediation_strategy |-> remediation, notes |-> notes]

\* The calls the callers make: the two of tests/test_victoria_magistrates.py
\* and one that passes the required arguments only.
Calls ==
    { Arguments("Category B - Procedural Defects", "exclusion_granted",
                Some(<<"s.55D non-compliance">>), None,
                Some("Court accepted absence of evidence on directions."),
                Some("Prosecution to tender training logs in future."), None),
      Arguments("Category B - Procedural Defects", "exclusion_refused",
                None, Some(<<"device maintenance unproven">>),
                Some("Court satisfied maintenance was implied."), None, None),
      Arguments("Category C - Evidentiary Defects", "exclusion_granted",
                None, None, None, None, None) }

DefectTypes == {"Category B - Procedural Defects", "Category C - Evidentiary Defects"}

\* list(xs or [])
ListOrEmpty(opt) == IF opt = None THEN <<>> ELSE opt[1]

\* The entry record_outcome builds
Entry(call, timestamp) ==
    [defect_type |-> call.defect_type,
     result |-> call.result,
     timestamp |-> timestamp,
     arguments_accepted |-> ListOrEmpty(call.arguments_accepted),
     arguments_rejected |-> ListOrEmpty(call.arguments_rejected),
     judicial_response |-> call.judicial_response,
     remediation_strategy |-> call.remediation_strategy,
     notes |-> call.notes]
\* summarise_results counting the outcomes of a defect type under each of its results.
Summary_counting_defects(list) ==
    LET defects == {list[i].defect_type : i \in 1..Len(list)}
        results(d) == {list[i].result : i \in {j \in 1..Len(list) : list[j].defect_type = d}}
    IN  [d \in defects |->
            [r \in results(d) |->
                Cardinality({i \in 1..Len(list) : list[i].defect_type = d})]]

\* The dict summarise_results builds from the outcomes read
Summary(list) ==
    LET defects == {list[i].defect_type : i \in 1..Len(list)}
        results(d) == {list[i].result : i \in {j \in 1..Len(list) : list[j].defect_type = d}}
    IN  [d \in defects |->
            [r \in results(d) |->
                Cardinality({i \in 1..Len(list) :
                                list[i].defect_type = d /\ list[i].result = r})]]

\* The storage files a first caller may find.
InitialFiles ==
    { None,
      Some(OtherText("")),
      Some(OtherText("{\"outcomes\": [")),
      Some(OtherText("{}")),
      Some(OtherText("[]")),
      Some(_write_outcomes(<<>>)),
      Some(_write_outcomes(<<Entry(CHOOSE call \in Calls : call.notes = None /\ call.judicial_response = None,
                                  isoformat(0))>>)) }

\* A caller's call finishes with `result`.
Finish(self, operation, result) ==
    /\ response' = [response EXCEPT ![self] =
                        Some([operation |-> operation, raised |-> result.raised,
                              value |-> result.value])]
    /\ failed' = IF result.raised # None
                 THEN failed \cup {<<operation, result.raised[1]>>}
                 ELSE failed

\* A caller's call begins.
Begin(self) ==
    /\ pc[self] = "idle"
    /\ overlapped' = (overlapped \/ \E other \in Callers \ {self} : pc[other] # "idle")


\* __init__ writing the empty log whether or not the file exists.
init_exists_always_writing(self) ==
    /\ Begin(self)
    /\ self \notin trackers
    /\ pc' = [pc EXCEPT ![self] = "init_write"]
    /\ UNCHANGED <<file, trackers, outcomes, entry, response, clock, initial, recorded, failed>>

\* OutcomeTracker.__init__ up to the test of storage_path.exists()
init_exists(self) ==
    /\ Begin(self)
    /\ self \notin trackers
    /\ IF file # None
       THEN /\ trackers' = trackers \cup {self}
            /\ Finish(self, "__init__", Returns(None))
            /\ UNCHANGED pc
       ELSE /\ pc' = [pc EXCEPT ![self] = "init_write"]
            /\ UNCHANGED <<trackers, response, failed>>
    /\ UNCHANGED <<file, outcomes, entry, clock, initial, recorded>>

\* OutcomeTracker.__init__: self._write_outcomes([])
init_write(self) ==
    /\ pc[self] = "init_write"
    /\ file' = Some(_write_outcomes(<<>>))
    /\ trackers' = trackers \cup {self}
    /\ pc' = [pc EXCEPT ![self] = "idle"]
    /\ Finish(self, "__init__", Returns(None))
    /\ UNCHANGED <<outcomes, entry, clock, initial, recorded, overlapped>>

\* OutcomeTracker.record_outcome up to the entry being built
record_outcome_read(self, call) ==
    /\ Begin(self)
    /\ self \in trackers
    /\ clock < MaxCalls
    /\ LET read == _read_outcomes(file[1])
       IN  IF read.raised # None
           THEN /\ Finish(self, "record_outcome", read)
                /\ UNCHANGED <<pc, outcomes, entry, clock>>
           ELSE /\ clock' = clock + 1
                /\ outcomes' = [outcomes EXCEPT ![self] = read.value[1]]
                /\ entry' = [entry EXCEPT ![self] = Some(Entry(call, isoformat(clock + 1)))]
                /\ pc' = [pc EXCEPT ![self] = "record_write"]
                /\ UNCHANGED <<response, failed>>
    /\ UNCHANGED <<file, trackers, initial, recorded>>


\* The rest of record_outcome as one step with its read: the entry is appended
\* to the list the file holds when the write is made.
record_outcome_write_atomic(self) ==
    /\ pc[self] = "record_write"
    /\ file' = Some(_write_outcomes(Append(_read_outcomes(file[1]).value[1], entry[self][1])))
    /\ recorded' = Append(recorded, [entry |-> entry[self][1], read |-> outcomes[self]])
    /\ pc' = [pc EXCEPT ![self] = "idle"]
    /\ outcomes' = [outcomes EXCEPT ![self] = <<>>]
    /\ entry' = [entry EXCEPT ![self] = None]
    /\ Finish(self, "record_outcome", Returns(entry[self][1]))
    /\ UNCHANGED <<trackers, clock, initial, overlapped>>

\* OutcomeTracker.record_outcome: outcomes.append(entry), _write_outcomes, return
record_outcome_write(self) ==
    /\ pc[self] = "record_write"
    /\ file' = Some(_write_outcomes(Append(outcomes[self], entry[self][1])))
    /\ recorded' = Append(recorded, [entry |-> entry[self][1], read |-> outcomes[self]])
    /\ pc' = [pc EXCEPT ![self] = "idle"]
    /\ outcomes' = [outcomes EXCEPT ![self] = <<>>]
    /\ entry' = [entry EXCEPT ![self] = None]
    /\ Finish(self, "record_outcome", Returns(entry[self][1]))
    /\ UNCHANGED <<trackers, clock, initial, overlapped>>

\* OutcomeTracker.get_outcomes_for_defect
get_outcomes_for_defect(self, defect_type) ==
    /\ Begin(self)
    /\ self \in trackers
    /\ LET read == _read_outcomes(file[1])
       IN  IF read.raised # None
           THEN Finish(self, "get_outcomes_for_defect", read)
           ELSE Finish(self, "get_outcomes_for_defect",
                       Returns(SelectSeq(read.value[1],
                                         LAMBDA outcome : outcome.defect_type = defect_type)))
    /\ UNCHANGED <<file, trackers, pc, outcomes, entry, clock, initial, recorded>>

\* OutcomeTracker.summarise_results
summarise_results(self) ==
    /\ Begin(self)
    /\ self \in trackers
    /\ LET read == _read_outcomes(file[1])
       IN  IF read.raised # None
           THEN Finish(self, "summarise_results", read)
           ELSE Finish(self, "summarise_results", Returns(Summary(read.value[1])))
    /\ UNCHANGED <<file, trackers, pc, outcomes, entry, clock, initial, recorded>>

\* No caller has used the storage file.
TrackerIdle(start) ==
    /\ file = start
    /\ initial = start
    /\ trackers = {}
    /\ pc = [self \in Callers |-> "idle"]
    /\ outcomes = [self \in Callers |-> <<>>]
    /\ entry = [self \in Callers |-> None]
    /\ response = [self \in Callers |-> None]
    /\ clock = 0
    /\ recorded = <<>>
    /\ overlapped = FALSE
    /\ failed = {}

TrackerInit ==
    /\ \E start \in InitialFiles : TrackerIdle(start)
    /\ doc_a = TestDocA
    /\ doc_b = TestDocB
    /\ registry = PROVISIONS
    /\ previous = None
    /\ latest = None
    /\ swapped = None
    /\ ChecklistIdle("", <<>>)
    /\ PhaseCIdle(<<>>)

TrackerNext ==
    /\ \E self \in Callers :
        \/ init_exists(self)
        \/ init_write(self)
        \/ \E call \in Calls : record_outcome_read(self, call)
        \/ record_outcome_write(self)
        \/ \E defect_type \in DefectTypes : get_outcomes_for_defect(self, defect_type)
        \/ summarise_results(self)
    /\ UNCHANGED <<phase_b_vars, checklist_vars, phase_c_vars>>

TrackerSpec == TrackerInit /\ [][TrackerNext]_vars

(***************************************************************************)
(* The checklists: a caller asks for a stage or a section by name.         *)
(***************************************************************************)
\* No report has been built.
PhaseBIdle ==
    /\ doc_a = TestDocA
    /\ doc_b = TestDocB
    /\ registry = PROVISIONS
    /\ previous = None
    /\ latest = None
    /\ swapped = None

\* A caller evaluates the stage called `requested`.
EvaluateStage ==
    /\ answer' = Some([operation |-> "evaluate_stage"] @@ evaluate_stage(requested, provided))
    /\ UNCHANGED <<requested, provided>>

\* A caller evaluates the disclosure section called `requested`.
EvaluateDisclosureSection ==
    /\ answer' = Some([operation |-> "evaluate_disclosure_section"]
                      @@ evaluate_disclosure_section(requested, provided))
    /\ UNCHANGED <<requested, provided>>

ChecklistInit ==
    /\ \E asked \in RequestedNames, mapping \in ProvidedMappings : ChecklistIdle(asked, mapping)
    /\ PhaseBIdle
    /\ TrackerIdle(None)
    /\ PhaseCIdle(<<>>)

ChecklistNext ==
    /\ EvaluateStage \/ EvaluateDisclosureSection
    /\ UNCHANGED <<phase_b_vars, tracker_vars, phase_c_vars>>

ChecklistSpec == ChecklistInit /\ [][ChecklistNext]_vars

(***************************************************************************)
(* Phase C: a caller has the interpreter harmonise a list of provisions.   *)
(***************************************************************************)
HarmoniseDocuments ==
    /\ harmonisation' = Some(_harmonise_documents(interpreted))
    /\ UNCHANGED interpreted

PhaseCInit ==
    /\ \E provision \in Provisions :
        \/ PhaseCIdle(<<provision>>)
        \/ PhaseCIdle(<<provision, _sample_provision>>)
    /\ PhaseBIdle
    /\ TrackerIdle(None)
    /\ ChecklistIdle("", <<>>)

PhaseCNext ==
    /\ HarmoniseDocuments
    /\ UNCHANGED <<phase_b_vars, tracker_vars, checklist_vars>>

PhaseCSpec == PhaseCInit /\ [][PhaseCNext]_vars

(***************************************************************************)
(* The state machine: a caller holding two profiles calls                  *)
(* build_phase_b_report on them, any number of times.                      *)
(***************************************************************************)
Init ==
    /\ \/ doc_a \in Profiles /\ doc_b \in BaseDocs
       \/ doc_a \in BaseDocs /\ doc_b \in Profiles
       \/ doc_a \in ProbeDocs(TestDocA) /\ doc_b \in ProbeDocs(TestDocB)
       \/ doc_a \in CoreStepDocs /\ doc_b \in KeyDateDocs
    /\ registry = PROVISIONS
    /\ previous = None
    /\ latest = None
    /\ swapped = None
    /\ TrackerIdle(None)
    /\ ChecklistIdle("", <<>>)
    /\ PhaseCIdle(<<>>)

Build ==
    /\ previous' = latest
    /\ latest' = Some(build_phase_b_report(doc_a, doc_b))
    /\ doc_a' = ArgumentAfterCall(doc_a)
    /\ doc_b' = ArgumentAfterCall(doc_b)
    /\ UNCHANGED <<registry, swapped>>
    /\ UNCHANGED <<tracker_vars, checklist_vars, phase_c_vars>>

\* The caller passes the same two profiles in the opposite order.
BuildSwapped ==
    /\ swapped' = Some(build_phase_b_report(doc_b, doc_a))
    /\ doc_a' = ArgumentAfterCall(doc_a)
    /\ doc_b' = ArgumentAfterCall(doc_b)
    /\ UNCHANGED <<registry, previous, latest>>
    /\ UNCHANGED <<tracker_vars, checklist_vars, phase_c_vars>>

Next == Build \/ BuildSwapped

Spec == Init /\ [][Next]_vars

\* The caller compares a profile with itself.
SelfInit ==
    /\ doc_a \in Profiles \cup BaseDocs
    /\ doc_b = doc_a
    /\ registry = PROVISIONS
    /\ previous = None
    /\ latest = None
    /\ swapped = None
    /\ TrackerIdle(None)
    /\ ChecklistIdle("", <<>>)
    /\ PhaseCIdle(<<>>)

SelfSpec == SelfInit /\ [][Next]_vars

(***************************************************************************)
(* Properties.                                                             *)
(***************************************************************************)
\* Every CrossReferenceRow of every report returned so far.
Rows ==
    { returned[n].cross_reference_matrix[i] :
        n \in 1..Len(returned), i \in 1..Len(PROVISIONS) }

\* The row of provision `key` in a report.
RowOf(report, key) ==
    report.cross_reference_matrix[CHOOSE i \in 1..Len(PROVISIONS) : PROVISIONS[i].key = key]

\* The <<profile, CheckStatus>> pairs reported for provision `key` so far.
Evaluated(key) ==
    UNION { { <<doc_a, RowOf(returned[n], key).doc_a>>,
              <<doc_b, RowOf(returned[n], key).doc_b>> } : n \in 1..Len(returned) }

SymmetricDifference(S, T) == (S \ T) \cup (T \ S)

\* C1: every report's cross-reference matrix has exactly 15 rows; row i
\* carries the label of the i-th PROVISIONS entry (so no provision is repeated
\* or skipped) and the results of that entry's evaluator for doc_a and doc_b.
C1_MatrixFollowsRegistry ==
    \A n \in 1..Len(returned) :
        LET matrix == returned[n].cross_reference_matrix
        IN  /\ Len(matrix) = 15
            /\ Cardinality({matrix[i].statutory_provision : i \in 1..Len(matrix)}) = 15
            /\ \A i \in 1..Len(matrix) :
                /\ matrix[i].statutory_provision = PROVISIONS[i].label
                /\ matrix[i].doc_a = checker(PROVISIONS[i], doc_a)
                /\ matrix[i].doc_b = checker(PROVISIONS[i], doc_b)

C1_Witness ==
    /\ returned # <<>>
    /\ Len(returned[1].cross_reference_matrix) = 15
    /\ \E i \in 1..15 :
        /\ returned[1].cross_reference_matrix[i].doc_a.status = COMPLIANT
        /\ returned[1].cross_reference_matrix[i].doc_b.status = NON_COMPLIANT

\* C2: in every row, action_required is "None" exactly when both statuses are
\* COMPLIANT; otherwise it is a non-empty string other than "None".
C2_ActionNoneIffBothCompliant ==
    \A row \in Rows :
        LET both == row.doc_a.status = COMPLIANT /\ row.doc_b.status = COMPLIANT
        IN  /\ row.action_required = "None" <=> both
            /\ ~both => row.action_required # "" /\ row.action_required # "None"

C2_Witness ==
    /\ \E row \in Rows : row.action_required = "None"
    /\ \E row \in Rows :
        /\ row.doc_a.status = UNCLEAR
        /\ row.doc_b.status = COMPLIANT
        /\ row.action_required # "None"

\* C3: in every row, discrepancies is "None" exactly when the statuses are
\* equal and the missing-item sets have an empty symmetric difference;
\* otherwise it is the status part (iff the statuses differ) followed by the
\* missing-elements part listing the symmetric difference in sorted order (iff
\* it is non-empty), joined by "; ".
C3_Discrepancies ==
    \A row \in Rows :
        LET same == row.doc_a.status = row.doc_b.status
            diff == SymmetricDifference(ToSet(row.doc_a.missing_items),
                                        ToSet(row.doc_b.missing_items))
            statusPart == "Status differs (Doc A: " \o colour(row.doc_a.status)
                          \o ", Doc B: " \o colour(row.doc_b.status) \o ")"
            missingPart == "Missing elements differ: " \o Join(", ", Sorted(diff))
        IN  /\ row.discrepancies = "None" <=> (same /\ diff = {})
            /\ (~same /\ diff = {}) => row.discrepancies = statusPart
            /\ (same /\ diff # {}) => row.discrepancies = missingPart
            /\ (~same /\ diff # {}) => row.discrepancies = statusPart \o "; " \o missingPart

C3_Witness ==
    /\ \E row \in Rows :
        /\ row.doc_a.status = row.doc_b.status
        /\ ToSet(row.doc_b.missing_items) \ ToSet(row.doc_a.missing_items) # {}
        /\ ToSet(row.doc_a.missing_items) \ ToSet(row.doc_b.missing_items) # {}
    /\ \E row \in Rows :
        /\ row.doc_a.status = row.doc_b.status
        /\ row.discrepancies = "None"

AuthorityPresent(document) ==
    LET authority == document.preliminary_test.statutory_authority
    IN  authority # None /\ Strip(authority[1]) # ""

\* C6: RSA_AUTHORITY is UNCLEAR whenever authority is present and flagged
\* ambiguous, COMPLIANT iff it is present and not flagged, and NON_COMPLIANT
\* iff it is absent (None, empty or whitespace only), flagged or not.
C6_AuthorityStatus ==
    \A pair \in Evaluated("RSA_AUTHORITY") :
        LET present == AuthorityPresent(pair[1])
            ambiguous == pair[1].preliminary_test.authority_is_ambiguous
        IN  /\ (present /\ ambiguous) => pair[2].status = UNCLEAR
            /\ pair[2].status = COMPLIANT <=> (present /\ ~ambiguous)
            /\ pair[2].status = NON_COMPLIANT <=> ~present

C6_Witness ==
    /\ \E pair \in Evaluated("RSA_AUTHORITY") :
        /\ pair[1].preliminary_test.statutory_authority = Some(" s.49 ")
        /\ pair[1].preliminary_test.authority_is_ambiguous
        /\ pair[2].status = UNCLEAR
    /\ \E pair \in Evaluated("RSA_AUTHORITY") :
        /\ pair[1].preliminary_test.statutory_authority = None
        /\ pair[1].preliminary_test.authority_is_ambiguous
        /\ pair[2].status = NON_COMPLIANT

\* C7: EA_59 is never NON_COMPLIANT; it is COMPLIANT iff the profile has a
\* hearsay item or a documented hearsay review, and UNCLEAR iff it has
\* neither.
C7_HearsayFlagged ==
    \A pair \in Evaluated("EA_59") :
        LET evidence == pair[1].evidence
            flagged == Len(evidence.hearsay_items) >= 1 \/ evidence.hearsay_review_documented
        IN  /\ pair[2].status # NON_COMPLIANT
            /\ pair[2].status = COMPLIANT <=> flagged
            /\ pair[2].status = UNCLEAR <=> ~flagged

C7_Witness ==
    /\ \E pair \in Evaluated("EA_59") :
        /\ pair[1].evidence.hearsay_items = <<>>
        /\ ~pair[1].evidence.hearsay_review_documented
        /\ pair[2].status = UNCLEAR
    /\ \E pair \in Evaluated("EA_59") :
        /\ pair[1].evidence.hearsay_items # <<>>
        /\ ~pair[1].evidence.hearsay_review_documented
        /\ pair[2].status = COMPLIANT

\* The business records of a profile whose foundation is not established.
LackingFoundation(document) ==
    { i \in 1..Len(document.evidence.business_records) :
        ~document.evidence.business_records[i].exception_established }

\* C8 as claimed: EA_69 is COMPLIANT whenever no business record lacks an
\* established foundation, also when none is tendered, and NON_COMPLIANT iff
\* at least one lacks it.
C8_AsClaimed ==
    \A pair \in Evaluated("EA_69") :
        /\ LackingFoundation(pair[1]) = {} => pair[2].status = COMPLIANT
        /\ pair[2].status = NON_COMPLIANT <=> LackingFoundation(pair[1]) # {}

\* C8 amended: EA_69 is COMPLIANT iff the profile has at least one business
\* record and none lacks an established foundation, UNCLEAR iff it has no
\* business record, and NON_COMPLIANT iff at least one lacks it.
C8_BusinessRecords ==
    \A pair \in Evaluated("EA_69") :
        LET records == pair[1].evidence.business_records
        IN  /\ pair[2].status = COMPLIANT <=> (Len(records) >= 1 /\ LackingFoundation(pair[1]) = {})
            /\ pair[2].status = UNCLEAR <=> Len(records) = 0
            /\ pair[2].status = NON_COMPLIANT <=> LackingFoundation(pair[1]) # {}

C8_Witness ==
    /\ \E pair \in Evaluated("EA_69") :
        /\ pair[1].evidence.business_records = <<>>
        /\ pair[2].status = UNCLEAR
    /\ \E pair \in Evaluated("EA_69") :
        /\ Len(pair[1].evidence.business_records) = 2
        /\ Cardinality(LackingFoundation(pair[1])) = 1
        /\ pair[2].status = NON_COMPLIANT

\* The status a nullable flag maps to: True, False and None are three cases.
TriState(flag) ==
    CASE flag = Some(TRUE) -> COMPLIANT
      [] flag = Some(FALSE) -> NON_COMPLIANT
      [] flag = None -> UNCLEAR

\* C9: CPA_TIMING follows disclosure_timing_compliant and RSA_55_1 follows
\* evidentiary_test_compliant: COMPLIANT for True, NON_COMPLIANT for False,
\* UNCLEAR for None, with empty missing_items.
C9_TriStateFlags ==
    /\ \A pair \in Evaluated("CPA_TIMING") :
        /\ pair[2].status = TriState(pair[1].disclosure.disclosure_timing_compliant)
        /\ pair[2].missing_items = <<>>
    /\ \A pair \in Evaluated("RSA_55_1") :
        /\ pair[2].status = TriState(pair[1].preliminary_test.evidentiary_test_compliant)
        /\ pair[2].missing_items = <<>>

C9_Witness ==
    /\ \E pair \in Evaluated("CPA_TIMING") :
        /\ pair[1].disclosure.disclosure_timing_compliant = None
        /\ pair[2].status = UNCLEAR
    /\ \E pair \in Evaluated("CPA_TIMING") :
        /\ pair[1].disclosure.disclosure_timing_compliant = Some(FALSE)
        /\ pair[2].status = NON_COMPLIANT
    /\ \E pair \in Evaluated("RSA_55_1") :
        /\ pair[1].preliminary_test.evidentiary_test_compliant = None
        /\ pair[2].status = UNCLEAR

\* The mandatory disclosure categories in the order they are reported.
MandatoryOrder ==
    <<"informant statement", "witness statements", "prior convictions history",
      "physical evidence list">>

\* The mandatory categories a disclosure package lacks.
AbsentCategories(disclosure) ==
    {c \in {"informant statement"} : ~disclosure.informant_statement_provided}
    \cup {c \in {"witness statements"} : Len(disclosure.witness_statements) = 0}
    \cup {c \in {"prior convictions history"} : ~disclosure.prior_convictions_disclosed}
    \cup {c \in {"physical evidence list"} : ~disclosure.physical_exhibit_list_provided}

\* C10: missing_mandatory_items() is empty iff the three flags are true and a
\* witness statement exists; it lists exactly the absent categories, each
\* once, in the fixed order; CPA_DISCLOSURE is COMPLIANT iff it is empty and
\* otherwise NON_COMPLIANT with that list as missing_items.
C10_MandatoryItems ==
    \A pair \in Evaluated("CPA_DISCLOSURE") :
        LET disclosure == pair[1].disclosure
            missing == missing_mandatory_items(disclosure)
            position(c) == CHOOSE i \in 1..4 : MandatoryOrder[i] = c
        IN  /\ missing = <<>> <=>
                    /\ disclosure.informant_statement_provided
                    /\ disclosure.prior_convictions_disclosed
                    /\ disclosure.physical_exhibit_list_provided
                    /\ Len(disclosure.witness_statements) >= 1
            /\ ToSet(missing) = AbsentCategories(disclosure)
            /\ \A i, j \in 1..Len(missing) : i < j => position(missing[i]) < position(missing[j])
            /\ pair[2].status = COMPLIANT <=> missing = <<>>
            /\ pair[2].status = NON_COMPLIANT <=> missing # <<>>
            /\ pair[2].missing_items = missing

C10_Witness ==
    /\ \E pair \in Evaluated("CPA_DISCLOSURE") :
        /\ pair[1].disclosure.informant_statement_provided
        /\ pair[1].disclosure.prior_convictions_disclosed
        /\ pair[1].disclosure.physical_exhibit_list_provided
        /\ pair[1].disclosure.witness_statements = <<>>
        /\ pair[2].status = NON_COMPLIANT
        /\ pair[2].missing_items = <<"witness statements">>
    /\ \E pair \in Evaluated("CPA_DISCLOSURE") :
        /\ pair[2].status = COMPLIANT
        /\ pair[2].missing_items = <<>>

\* The s.55E requirements in the order they are reported.
PerformanceOrder ==
    <<"performance indicators", "device approval number", "calibration/maintenance records">>

\* The s.55E requirements a preliminary test record lacks.
AbsentRequirements(preliminary) ==
    {r \in {"performance indicators"} : Len(preliminary.proper_performance_indicators) = 0}
    \cup {r \in {"device approval number"} :
            preliminary.device_approval_number \in {None, Some("")}}
    \cup {r \in {"calibration/maintenance records"} :
            Len(preliminary.calibration_records) = 0 /\ Len(preliminary.maintenance_records) = 0}

\* C11: calibration_complete() is true iff one of the two record lists is
\* non-empty; RSA_55E is COMPLIANT iff indicators, approval number and one of
\* the record lists are present, and otherwise NON_COMPLIANT with
\* missing_items naming exactly the absent requirements in the fixed order.
C11_ProperPerformance ==
    \A pair \in Evaluated("RSA_55E") :
        LET preliminary == pair[1].preliminary_test
            absent == AbsentRequirements(preliminary)
            missing == pair[2].missing_items
            position(r) == CHOOSE i \in 1..3 : PerformanceOrder[i] = r
        IN  /\ calibration_complete(preliminary) <=>
                    (Len(preliminary.calibration_records) >= 1
                     \/ Len(preliminary.maintenance_records) >= 1)
            /\ pair[2].status = COMPLIANT <=> absent = {}
            /\ pair[2].status = NON_COMPLIANT <=> absent # {}
            /\ ToSet(missing) = absent
            /\ Len(missing) = Cardinality(absent)
            /\ \A i, j \in 1..Len(missing) : i < j => position(missing[i]) < position(missing[j])

C11_Witness ==
    /\ \E pair \in Evaluated("RSA_55E") :
        /\ pair[1].preliminary_test.calibration_records = <<>>
        /\ pair[1].preliminary_test.maintenance_records # <<>>
        /\ pair[2].status = COMPLIANT
    /\ \E pair \in Evaluated("RSA_55E") :
        pair[2].missing_items = PerformanceOrder

\* The four only-in-A fields of an OmissionsReport.
OnlyInA ==
    {"elements_only_in_a", "statutory_refs_only_in_a", "facts_only_in_a",
     "procedures_only_in_a"}

\* The entries of a list trimmed and lower-cased, blank entries dropped.
TrimmedLowered(items) ==
    { Lower(Strip(items[i])) : i \in {j \in 1..Len(items) : Strip(items[j]) # ""} }

\* The set of a profile that an only-in-A field compares.
ComparedSet(document, field) ==
    CASE field = "elements_only_in_a" -> material_elements(document)
      [] field = "statutory_refs_only_in_a" -> TrimmedLowered(document.statutory_references)
      [] field = "facts_only_in_a" -> TrimmedLowered(document.facts)
      [] field = "procedures_only_in_a" -> TrimmedLowered(document.procedural_steps)

\* C12: whenever the compared sets of the two profiles differ in both
\* directions, the only-in-A output of report(A, B) differs from that of
\* report(B, A); the two outputs never share a member.  For all four fields.
C12_Directional ==
    (latest # None /\ swapped # None) =>
        \A field \in OnlyInA :
            LET forward == latest[1].omissions[field]
                backward == swapped[1].omissions[field]
                only_a == ComparedSet(doc_a, field) \ ComparedSet(doc_b, field)
                only_b == ComparedSet(doc_b, field) \ ComparedSet(doc_a, field)
            IN  /\ (only_a # {} /\ only_b # {}) => forward # backward
                /\ ToSet(forward) \cap ToSet(backward) = {}

C12_Witness ==
    /\ latest # None
    /\ swapped # None
    /\ \A field \in {"elements_only_in_a", "statutory_refs_only_in_a"} :
        /\ latest[1].omissions[field] # <<>>
        /\ swapped[1].omissions[field] # <<>>
    /\ latest[1].omissions.facts_only_in_a # <<>>
    /\ swapped[1].omissions.facts_only_in_a = <<>>

\* Pairs of entries that differ only in case or surrounding whitespace.
Variants ==
    { {"CPA 2009", " cpa 2009 "},
      {"Officer observed weaving", " officer observed weaving "},
      {"Vehicle stop", " vehicle stop "},
      {"Test administered", "TEST ADMINISTERED"} }

SameEntry(x, y) == x = y \/ \E class \in Variants : {x, y} \subseteq class

\* The list fields an only-in-A field is computed from.
ListOf(document, field) ==
    CASE field = "statutory_refs_only_in_a" -> document.statutory_references
      [] field = "facts_only_in_a" -> document.facts
      [] field = "procedures_only_in_a" -> document.procedural_steps

\* C13: each only-in-A output is exactly the members of A's set that are not
\* in B's set, each once, in ascending order; an entry of A that B holds in
\* another case, with other surrounding whitespace, at another position or
\* another number of times is not reported, nor is a blank entry.
C13_SetDifference ==
    \A n \in 1..Len(returned) :
        \A field \in OnlyInA :
            LET out == returned[n].omissions[field]
                expected == ComparedSet(doc_a, field) \ ComparedSet(doc_b, field)
            IN  /\ ToSet(out) = expected
                /\ Len(out) = Cardinality(expected)
                /\ \A i, j \in 1..Len(out) : i < j => Rank(out[i]) < Rank(out[j])
                /\ field # "elements_only_in_a" =>
                     LET list_a == ListOf(doc_a, field)
                         list_b == ListOf(doc_b, field)
                     IN  (\A i \in 1..Len(list_a) :
                            \/ list_a[i] \in {"", "  ", "   "}
                            \/ \E j \in 1..Len(list_b) : SameEntry(list_a[i], list_b[j]))
                         => out = <<>>

C13_Witness ==
    /\ latest # None
    /\ doc_a.statutory_references = <<" cpa 2009 ", " cpa 2009 ">>
    /\ doc_b.statutory_references = <<"CPA 2009">>
    /\ latest[1].omissions.statutory_refs_only_in_a = <<>>
    /\ Len(latest[1].omissions.elements_only_in_a) >= 2

\* The keys of targeted_omissions.
ProbeKeys ==
    {"s55d_in_accordance_language", "s49_reason_to_believe", "s55e_device_approval_number",
     "s55e_calibration_records", "test_vs_drive_time_alignment"}

\* The condition a targeted omission probes a profile for.
Probe(key, document) ==
    LET preliminary == document.preliminary_test
    IN  CASE key = "s55d_in_accordance_language" -> preliminary.directions_compliance_language
          [] key = "s49_reason_to_believe" -> has_reason_to_believe(preliminary)
          [] key = "s55e_device_approval_number" ->
                preliminary.device_approval_number \notin {None, Some("")}
          [] key = "s55e_calibration_records" -> calibration_complete(preliminary)
          [] key = "test_vs_drive_time_alignment" ->
                /\ preliminary.test_time \notin {None, Some("")}
                /\ preliminary.driving_time \notin {None, Some("")}

\* C14: targeted_omissions has exactly the five keys; each value is true iff
\* the probed condition holds for the first profile and not for the second;
\* so no key is true both for (A, B) and for (B, A).
C14_TargetedOmissions ==
    /\ latest # None =>
        /\ DOMAIN latest[1].omissions.targeted_omissions = ProbeKeys
        /\ \A key \in ProbeKeys :
            latest[1].omissions.targeted_omissions[key]
                = (Probe(key, doc_a) /\ ~Probe(key, doc_b))
    /\ swapped # None =>
        /\ DOMAIN swapped[1].omissions.targeted_omissions = ProbeKeys
        /\ \A key \in ProbeKeys :
            swapped[1].omissions.targeted_omissions[key]
                = (Probe(key, doc_b) /\ ~Probe(key, doc_a))
    /\ (latest # None /\ swapped # None) =>
        \A key \in ProbeKeys :
            ~(latest[1].omissions.targeted_omissions[key]
              /\ swapped[1].omissions.targeted_omissions[key])

C14_Witness ==
    /\ latest # None
    /\ swapped # None
    /\ Cardinality(ProbeKeys) = 5
    /\ latest[1].omissions.targeted_omissions["s55e_device_approval_number"]
    /\ swapped[1].omissions.targeted_omissions["s55d_in_accordance_language"]
    /\ doc_a.preliminary_test.test_time # None
    /\ doc_a.preliminary_test.driving_time = None
    /\ doc_b.preliminary_test.driving_time = None

\* The keys both profiles hold a non-empty date for, the two dates differing.
InconsistentKeys(a, b) ==
    { key \in DOMAIN a.key_dates \cap DOMAIN b.key_dates :
        /\ a.key_dates[key] # ""
        /\ b.key_dates[key] # ""
        /\ a.key_dates[key] # b.key_dates[key] }

\* The positions of a defect list attributed to `name`.
AttributedTo(defects, name) == { i \in 1..Len(defects) : defects[i].document = name }

\* C15: the medium list holds exactly one defect attributed to "Doc A & Doc B"
\* for each key both profiles give a non-empty date that differs, naming the
\* key and both dates, and none for any other key.
C15_DateDefects ==
    \A n \in 1..Len(returned) :
        LET medium == returned[n].defects.medium
            shared == AttributedTo(medium, "Doc A & Doc B")
            named(key) == "Inconsistent " \o key \o " date: Doc A " \o doc_a.key_dates[key]
                          \o " vs Doc B " \o doc_b.key_dates[key]
        IN  /\ \A key \in InconsistentKeys(doc_a, doc_b) :
                Cardinality({i \in shared : medium[i].description = named(key)}) = 1
            /\ Cardinality(shared) = Cardinality(InconsistentKeys(doc_a, doc_b))
            /\ \A i \in shared : medium[i].severity = MEDIUM
            /\ AttributedTo(returned[n].defects.high, "Doc A & Doc B") = {}
            /\ AttributedTo(returned[n].defects.low, "Doc A & Doc B") = {}

C15_Witness ==
    /\ latest # None
    /\ DOMAIN doc_a.key_dates = {"offence", "test"}
    /\ DOMAIN doc_b.key_dates = {"offence", "test"}
    /\ doc_b.key_dates["test"] = ""
    /\ Cardinality(AttributedTo(latest[1].defects.medium, "Doc A & Doc B")) = 1

\* The eight conditions that make a HIGH defect.
HighCondition(k, document) ==
    LET prelim == document.preliminary_test
        disclosure == document.disclosure
        evidence == document.evidence
    IN  CASE k = 1 -> prelim.statutory_authority = None
                      \/ Strip(prelim.statutory_authority[1]) = ""
          [] k = 2 -> prelim.reason_to_believe_detail = None
                      \/ Strip(prelim.reason_to_believe_detail[1]) = ""
          [] k = 3 -> ~prelim.directions_documented
          [] k = 4 -> Len(prelim.proper_performance_indicators) = 0
          [] k = 5 -> \E i \in 1..Len(disclosure.witness_statements) :
                        ~disclosure.witness_statements[i].signed
                        \/ ~disclosure.witness_statements[i].dated
          [] k = 6 -> AbsentCategories(disclosure) # {}
          [] k = 7 -> \E i \in 1..Len(evidence.hearsay_items) :
                        evidence.hearsay_items[i].exception_claimed = None
                        \/ ~evidence.hearsay_items[i].exception_supported
          [] k = 8 -> Len(evidence.s138_exclusion_factors) >= 1
                      /\ Len(evidence.s138_mitigation_steps) = 0

\* What the HIGH defect of condition k says.
HighTitle(k) ==
    CASE k = 1 -> "Missing statutory authority for preliminary test"
      [] k = 2 -> "Absent reason to believe justification"
      [] k = 3 -> "No evidence of directions given"
      [] k = 4 -> "Missing proper performance indicators"
      [] k = 5 -> "Unsigned/undated witness statements: "
      [] k = 6 -> "Missing mandatory disclosure items: "
      [] k = 7 -> "Hearsay without exception: "
      [] k = 8 -> "Indicators of unlawfully obtained evidence"

\* The names or items the HIGH defect of condition k lists after its title.
HighDetail(k, document) ==
    CASE k = 5 -> Join(", ", unsigned_or_undated_statements(document.disclosure))
      [] k = 6 -> Join(", ", missing_mandatory_items(document.disclosure))
      [] k = 7 -> Join(", ", Comprehension(document.evidence.hearsay_items,
                                LAMBDA item : item.exception_claimed = None
                                              \/ ~item.exception_supported,
                                LAMBDA item : item.description))
      [] OTHER -> ""

\* C16: for each profile and each of the eight conditions, the high list
\* holds exactly one defect of that condition carrying the profile's name if
\* the condition holds for the profile and none if it does not; the high list
\* holds nothing else.
C16_HighDefects ==
    \A n \in 1..Len(returned) :
        LET high == returned[n].defects.high
            documents == <<doc_a, doc_b>>
            holding(name, k) ==
                { side \in 1..2 : documents[side].name = name /\ HighCondition(k, documents[side]) }
            emitted(name, k) ==
                { i \in AttributedTo(high, name) :
                    \E side \in 1..2 :
                        high[i].description = HighTitle(k) \o HighDetail(k, documents[side]) }
        IN  /\ \A name \in {doc_a.name, doc_b.name} : \A k \in 1..8 :
                Cardinality(emitted(name, k)) = Cardinality(holding(name, k))
            /\ Len(high) = Cardinality({ <<side, k>> \in (1..2) \X (1..8) :
                                            HighCondition(k, documents[side]) })
            /\ \A i \in 1..Len(high) : high[i].severity = HIGH

C16_Witness ==
    /\ latest # None
    /\ doc_a.name # doc_b.name
    /\ Len(doc_a.evidence.hearsay_items) = 2
    /\ doc_a.evidence.hearsay_items[1].exception_claimed # None
    /\ ~doc_a.evidence.hearsay_items[1].exception_supported
    /\ doc_a.evidence.hearsay_items[2].exception_supported
    /\ Cardinality(AttributedTo(latest[1].defects.high, doc_a.name)) = 1
    /\ Cardinality(AttributedTo(latest[1].defects.high, doc_b.name)) = 8

\* C17: a profile gets the MEDIUM defect "Missing exhibit descriptions" iff
\* its exhibit list is provided and its exhibit descriptions are not complete,
\* whatever exhibits_identified and the CPA_EXHIBITS status are.
C17_ExhibitDescriptions ==
    \A n \in 1..Len(returned) :
        LET report == returned[n]
            documents == <<doc_a, doc_b>>
            emitted(name) ==
                { i \in AttributedTo(report.defects.medium, name) :
                    report.defects.medium[i].description = "Missing exhibit descriptions" }
            due(name) ==
                { side \in 1..2 :
                    /\ documents[side].name = name
                    /\ documents[side].disclosure.physical_exhibit_list_provided
                    /\ ~documents[side].disclosure.exhibit_descriptions_complete }
        IN  /\ \A name \in {doc_a.name, doc_b.name} :
                Cardinality(emitted(name)) = Cardinality(due(name))
            /\ \A severity \in {"high", "low"} :
                \A i \in 1..Len(report.defects[severity]) :
                    report.defects[severity][i].description # "Missing exhibit descriptions"

C17_Witness ==
    /\ latest # None
    /\ doc_a.name # doc_b.name
    /\ doc_a.disclosure.physical_exhibit_list_provided
    /\ doc_a.disclosure.exhibits_identified
    /\ ~doc_a.disclosure.exhibit_descriptions_complete
    /\ RowOf(latest[1], "CPA_EXHIBITS").doc_a.status = UNCLEAR
    /\ \E i \in AttributedTo(latest[1].defects.medium, doc_a.name) :
        latest[1].defects.medium[i].description = "Missing exhibit descriptions"
    /\ ~doc_b.disclosure.physical_exhibit_list_provided

\* The outcomes list a storage file holds (empty if it holds none).
Stored(storage) ==
    IF storage = None THEN <<>>
    ELSE IF _read_outcomes(storage[1]).raised # None THEN <<>>
    ELSE _read_outcomes(storage[1]).value[1]

\* The entries record_outcome has returned, in the order the calls returned.
RecordedEntries == [i \in 1..Len(recorded) |-> recorded[i].entry]

\* C18: as long as no call has begun during another caller's call, the
\* stored outcomes list is the list the file held at first followed by the
\* recorded entries in call order; constructing a tracker leaves an existing
\* file as it is, and writes the empty log when there was no file.
C18_AppendOnly ==
    ~overlapped =>
        /\ (file # None /\ _read_outcomes(file[1]).raised = None) =>
                Stored(file) = Stored(initial) \o RecordedEntries
        /\ (initial # None /\ recorded = <<>>) => file = initial
        /\ (initial = None /\ recorded = <<>> /\ file # None) =>
                file = Some(LogText(<<>>))
        /\ (initial = None /\ trackers = {} /\ \A self \in Callers : pc[self] = "idle") =>
                file = None

C18_Witness ==
    /\ ~overlapped
    /\ Len(Stored(initial)) = 1
    /\ trackers = Callers
    /\ Len(recorded) = 2
    /\ recorded[1].read = Stored(initial)
    /\ Len(Stored(file)) = 3
    /\ \E self \in Callers : response[self] # None /\ response[self][1].operation = "__init__"

\* C19: if the call that returned last had read the file before an earlier
\* returned call wrote its entry, the file holds the last call's entry and not
\* the earlier one's; if no call began during another caller's call, the file
\* holds every returned entry.
C19_LastWriterWins ==
    /\ \A i, j \in 1..Len(recorded) :
            ( /\ i < j
              /\ j = Len(recorded)
              /\ recorded[j].entry \in ToSet(Stored(file))
              /\ recorded[i].entry \notin ToSet(recorded[j].read) )
            => recorded[i].entry \notin ToSet(Stored(file))
    /\ ~overlapped => \A i \in 1..Len(recorded) : recorded[i].entry \in ToSet(Stored(file))

C19_Witness ==
    /\ overlapped
    /\ Len(recorded) = 2
    /\ recorded[1].read = recorded[2].read
    /\ recorded[2].entry \in ToSet(Stored(file))
    /\ recorded[1].entry \notin ToSet(Stored(file))
    /\ Len(Stored(file)) = Len(Stored(initial)) + 1

\* C20: when the storage file is not valid JSON at first, every
\* record_outcome, get_outcomes_for_defect and summarise_results call raises
\* the parse error, and the file keeps its text, whichever trackers are
\* constructed over it.
C20_CorruptFile ==
    (initial # None /\ initial[1].raw \in {"", "{\"outcomes\": ["}) =>
        /\ file = initial
        /\ recorded = <<>>
        /\ \A self \in Callers :
            (response[self] # None /\ response[self][1].operation # "__init__") =>
                /\ response[self][1].raised = Some(JSONDecodeError)
                /\ response[self][1].value = None
        /\ \A self \in Callers : pc[self] = "idle"

C20_Witness ==
    /\ initial = Some(OtherText("{\"outcomes\": ["))
    /\ file = initial
    /\ trackers = Callers
    /\ failed = { <<"record_outcome", JSONDecodeError>>,
                  <<"get_outcomes_for_defect", JSONDecodeError>>,
                  <<"summarise_results", JSONDecodeError>> }

(***************************************************************************)
(* C21                                                                     *)
(***************************************************************************)
\* The names each lookup knows, as the claim lists them.
KnownNames(operation) ==
    IF operation = "evaluate_stage"
    THEN {"contest_mention", "summary_case_conference", "summary_hearing"}
    ELSE {"prosecution", "defence"}

\* C21: evaluate_stage raises KeyError and returns nothing for every stage
\* name other than the three stages, evaluate_disclosure_section does so for
\* every section other than prosecution and defence, and for a known name
\* neither raises, whatever the provided mapping holds.
C21_UnknownName ==
    answer # None =>
        IF requested \in KnownNames(answer[1].operation)
        THEN answer[1].raised = None /\ answer[1].value # None
        ELSE answer[1].raised = Some(KeyError) /\ answer[1].value = None

\* A section name is asked of evaluate_stage, with a mapping that marks items present.
C21_Witness ==
    /\ answer # None
    /\ answer[1].operation = "evaluate_stage"
    /\ requested = "prosecution"
    /\ \E key \in DOMAIN provided : bool(provided[key])
    /\ answer[1].raised = Some(KeyError)

(***************************************************************************)
(* C22                                                                     *)
(***************************************************************************)
\* The positions of the stored entries of defect type d (and result r).
EntriesOf(list, d) == {i \in 1..Len(list) : list[i].defect_type = d}

EntriesWith(list, d, r) == {i \in EntriesOf(list, d) : list[i].result = r}

\* `value` is the stored entries of defect type d, in the order stored.
IsSelection(value, list, d) ==
    /\ Len(value) = Cardinality(EntriesOf(list, d))
    /\ \A k \in 1..Len(value) :
        \E i \in EntriesOf(list, d) :
            /\ value[k] = list[i]
            /\ Cardinality({j \in EntriesOf(list, d) : j < i}) = k - 1

\* `summary` counts the stored entries by defect type and result.
IsSummary(summary, list) ==
    /\ DOMAIN summary = {list[i].defect_type : i \in 1..Len(list)}
    /\ \A d \in DOMAIN summary :
        /\ DOMAIN summary[d] = {list[i].result : i \in EntriesOf(list, d)}
        /\ \A r \in DOMAIN summary[d] : summary[d][r] = Cardinality(EntriesWith(list, d, r))

\* After the step the caller holds the answer of `operation`, and the other
\* callers hold an answer of the operation they held an answer of before.
Answered(self, operation) ==
    /\ response'[self] # None
    /\ response'[self][1].operation = operation
    /\ \A other \in Callers \ {self} :
        /\ (response'[other] = None) <=> (response[other] = None)
        /\ response[other] # None => response'[other][1].operation = response[other][1].operation

\* C22: a get_outcomes_for_defect(d) call over a readable log returns exactly
\* the stored entries of defect type d in stored order, a summarise_results
\* call returns for each defect type and result the number of stored entries
\* with both, and neither call changes the file.
C22_ReadsAgree ==
    [][\A self \in Callers :
        /\ \A d \in DefectTypes :
            ( /\ Answered(self, "get_outcomes_for_defect")
              /\ get_outcomes_for_defect(self, d)
              /\ _read_outcomes(file[1]).raised = None ) =>
                /\ file' = file
                /\ response'[self][1].raised = None
                /\ IsSelection(response'[self][1].value[1], Stored(file), d)
        /\ ( /\ Answered(self, "summarise_results")
             /\ summarise_results(self)
             /\ _read_outcomes(file[1]).raised = None ) =>
                /\ file' = file
                /\ response'[self][1].raised = None
                /\ IsSummary(response'[self][1].value[1], Stored(file))
                /\ \A d \in DefectTypes \cap DOMAIN response'[self][1].value[1] :
                    LET counts == response'[self][1].value[1][d]
                        Sum[S \in SUBSET DOMAIN counts] ==
                            IF S = {} THEN 0
                            ELSE LET r == CHOOSE x \in S : TRUE
                                 IN  counts[r] + Sum[S \ {r}]
                    IN  Sum[DOMAIN counts] = Cardinality(EntriesOf(Stored(file), d))
    ]_vars

\* Three entries are stored, two of one defect type with different results:
\* one caller has been given those two, the other the summary.
C22_Witness ==
    /\ Len(Stored(file)) = 3
    /\ Len(recorded) = 2
    /\ \E self \in Callers, other \in Callers :
        /\ response[self] # None
        /\ response[self][1].operation = "get_outcomes_for_defect"
        /\ response[self][1].value = Some(SubSeq(Stored(file), 2, 3))
        /\ response[other] # None
        /\ response[other][1].operation = "summarise_results"
        /\ response[other][1].raised = None
        /\ Cardinality(DOMAIN response[other][1].value[1]) = 2
        /\ \E d \in DOMAIN response[other][1].value[1] :
            Cardinality(DOMAIN response[other][1].value[1][d]) = 2

(***************************************************************************)
(* C23                                                                     *)
(***************************************************************************)
\* The applications of the k-th provision handed in, in insertion order.
ApplicationsOf(k) == [i \in 1..Len(interpreted[k].applications) |->
                        interpreted[k].applications[i].value]

\* n(n-1)/2, and none when n < 2
PairCount(n) == IF n < 2 THEN 0 ELSE (n * (n - 1)) \div 2

\* The number of results owed to the provisions before the k-th.
ResultsBefore(k) ==
    LET Before[m \in 1..k] ==
            IF m = 1 THEN 0 ELSE Before[m - 1] + PairCount(Len(ApplicationsOf(m - 1)))
    IN  Before[k]

\* The place of the pair (i, j), i < j, among the pairs of n applications.
PairIndex(n, i, j) ==
    Cardinality({pair \in (1..n) \X (1..n) :
                    /\ pair[1] < pair[2]
                    /\ pair[1] < i \/ (pair[1] = i /\ pair[2] <= j)})

\* The result for the applications i < j of the k-th provision.
ResultOf(k, i, j) ==
    harmonisation[1][ResultsBefore(k) + PairIndex(Len(ApplicationsOf(k)), i, j)]

\* One result per unordered pair of each provision's applications.
OnePerPair ==
    Len(harmonisation[1]) = ResultsBefore(Len(interpreted) + 1)

\* What the claim says of every pair but the one with exactly one statutory support.
AlignedOrUncertain(result, first, second) ==
    LET differ == first.requirements_satisfied # second.requirements_satisfied
    IN  /\ (result.status = "Aligned") <=> ~differ
        /\ ~differ => result.prevailing_document = None
        /\ (differ /\ first.statutory_support = second.statutory_support) =>
            /\ result.status = "Uncertain"
            /\ result.prevailing_document =
                    Some(IF first.requirements_satisfied THEN first.document_name
                         ELSE second.document_name)

\* The pair the claim calls resolved: the requirements differ and exactly one
\* application has statutory support.
OneSupported(first, second) ==
    /\ first.requirements_satisfied # second.requirements_satisfied
    /\ first.statutory_support # second.statutory_support

Supported(first, second) ==
    IF first.statutory_support THEN first.document_name ELSE second.document_name

\* C23: two applications of one provision with equal requirements_satisfied
\* are "Aligned" with no prevailing document, and only those; when they differ
\* and exactly one has statutory support the status is "Resolved" and that
\* document prevails; when they differ and the support is equal the status is
\* "Uncertain" and the document whose requirements are satisfied prevails.
\* A provision with n applications yields n(n-1)/2 results, one per pair, and
\* none when n < 2.
C23_AsClaimed ==
    harmonisation # None =>
        /\ OnePerPair
        /\ \A k \in 1..Len(interpreted) :
            \A i, j \in 1..Len(ApplicationsOf(k)) :
                i < j =>
                    LET first == ApplicationsOf(k)[i]
                        second == ApplicationsOf(k)[j]
                    IN  /\ AlignedOrUncertain(ResultOf(k, i, j), first, second)
                        /\ OneSupported(first, second) =>
                            /\ ResultOf(k, i, j).status = "Resolved"
                            /\ ResultOf(k, i, j).prevailing_document =
                                    Some(Supported(first, second))

(***************************************************************************)
(* C24                                                                     *)
(***************************************************************************)
\* C24: CPA_DISCLOSURE, RSA_REASON, RSA_55D1, RSA_55D2, RSA_55E and EA_60_69
\* are never UNCLEAR, EA_59 and EA_137 are never NON_COMPLIANT, and RSA_55D2
\* is COMPLIANT for every profile whose subject is not literate, whether or
\* not oral directions are documented.
C24_NeverStatuses ==
    /\ \A key \in {"CPA_DISCLOSURE", "RSA_REASON", "RSA_55D1", "RSA_55D2", "RSA_55E", "EA_60_69"} :
        \A pair \in Evaluated(key) : pair[2].status # UNCLEAR
    /\ \A key \in {"EA_59", "EA_137"} :
        \A pair \in Evaluated(key) : pair[2].status # NON_COMPLIANT
    /\ \A pair \in Evaluated("RSA_55D2") :
        ~pair[1].preliminary_test.subject_literate => pair[2].status = COMPLIANT

\* A subject who is not literate and was given no oral directions, in a
\* profile that is otherwise as poor as the test's Doc B.
C24_Witness ==
    \E pair \in Evaluated("RSA_55D2") :
        /\ ~pair[1].preliminary_test.subject_literate
        /\ ~pair[1].preliminary_test.oral_directions_documented
        /\ ~pair[1].preliminary_test.directions_documented
        /\ pair[2].status = COMPLIANT
        /\ \E other \in Evaluated("RSA_55D1") :
            other[1] = pair[1] /\ other[2].status = NON_COMPLIANT

(***************************************************************************)
(* C25                                                                     *)
(***************************************************************************)
\* The positions of the witness statements that lack a signature or a date.
Unexecuted(disclosure) ==
    {i \in 1..Len(disclosure.witness_statements) :
        ~(disclosure.witness_statements[i].signed /\ disclosure.witness_statements[i].dated)}

\* `names` is the names of the statements at `positions`, in statement order.
NamesInOrder(names, statements, positions) ==
    /\ Len(names) = Cardinality(positions)
    /\ \A i \in positions :
        names[Cardinality({j \in positions : j <= i})] = statements[i].name

\* C25: CPA_STATEMENTS is NON_COMPLIANT iff at least one witness statement is
\* unsigned or undated, and then missing_items is those witnesses' names in
\* statement order; UNCLEAR iff there is no witness statement; COMPLIANT iff
\* there is at least one and every statement is signed and dated.
C25_StatementExecution ==
    \A pair \in Evaluated("CPA_STATEMENTS") :
        LET disclosure == pair[1].disclosure
            count == Len(disclosure.witness_statements)
        IN  /\ pair[2].status = NON_COMPLIANT <=> Unexecuted(disclosure) # {}
            /\ pair[2].status = NON_COMPLIANT =>
                    NamesInOrder(pair[2].missing_items, disclosure.witness_statements,
                                 Unexecuted(disclosure))
            /\ pair[2].status = UNCLEAR <=> count = 0
            /\ pair[2].status = COMPLIANT <=> (count >= 1 /\ Unexecuted(disclosure) = {})

\* Two statements, the first signed but undated, the second unsigned.
C25_Witness ==
    \E pair \in Evaluated("CPA_STATEMENTS") :
        /\ Len(pair[1].disclosure.witness_statements) = 2
        /\ pair[1].disclosure.witness_statements[1].signed
        /\ ~pair[1].disclosure.witness_statements[1].dated
        /\ ~pair[1].disclosure.witness_statements[2].signed
        /\ pair[2].status = NON_COMPLIANT
        /\ pair[2].missing_items = <<"Witness Patel", "Constable Lee">>

(***************************************************************************)
(* C26                                                                     *)
(***************************************************************************)
\* The action the claim gives a document label for a status that is not COMPLIANT.
ClaimedAction(label, status) ==
    LET verb == CASE status.missing_items # <<>> /\ status.status = NON_COMPLIANT -> "obtain"
                  [] status.missing_items = <<>> /\ status.status = NON_COMPLIANT -> "rectify"
                  [] OTHER -> "clarify"
        object == IF status.missing_items # <<>> THEN Join(", ", status.missing_items)
                  ELSE Lower(status.message)
    IN  label \o ": " \o verb \o " " \o object

\* C26: a document whose status on a row is not COMPLIANT gets the action
\* "<label>: <verb> <object>": with missing items the verb is "obtain"
\* (NON_COMPLIANT) or "clarify" (UNCLEAR) and the object the items joined by
\* ", "; without, the verb is "rectify" or "clarify" and the object the
\* lower-cased message.  A COMPLIANT status gets no action, and when both
\* documents get one, Doc A's comes first and " | " joins them.
C26_Actions ==
    \A row \in Rows :
        LET a == row.doc_a.status # COMPLIANT
            b == row.doc_b.status # COMPLIANT
        IN  /\ (a /\ b) => row.action_required =
                    ClaimedAction("Doc A", row.doc_a) \o " | " \o ClaimedAction("Doc B", row.doc_b)
            /\ (a /\ ~b) => row.action_required = ClaimedAction("Doc A", row.doc_a)
            /\ (~a /\ b) => row.action_required = ClaimedAction("Doc B", row.doc_b)
            /\ (~a /\ ~b) => row.action_required = "None"

\* One row asks Doc A to obtain two items and Doc B to clarify a message;
\* another asks Doc B alone to rectify one.
C26_Witness ==
    /\ \E row \in Rows :
        row.action_required =
            "Doc A: obtain Witness Patel, Constable Lee | Doc B: clarify no witness statements supplied"
    /\ \E row \in Rows :
        /\ row.doc_a.status = COMPLIANT
        /\ row.doc_b.status = NON_COMPLIANT
        /\ row.doc_b.missing_items = <<>>

(***************************************************************************)
(* C27                                                                     *)
(***************************************************************************)
\* The four core phrases, in sorted order.
CorePhrases == <<"directions provided", "results recorded", "test administered", "vehicle stop">>

\* The core phrases a profile's steps lack after trimming and lower-casing.
LackingPhrases(document) ==
    SelectSeq(CorePhrases,
              LAMBDA phrase :
                \A i \in 1..Len(document.procedural_steps) :
                    Lower(Strip(document.procedural_steps[i])) # phrase)

\* The description of the defect for a list of missing phrases.
Incomplete(phrases) ==
    "Incomplete procedural description (missing: " \o Join(", ", phrases) \o ")"

\* Every description the defect can carry.
IncompleteDescriptions ==
    { Incomplete(SelectSeq(CorePhrases, LAMBDA phrase : phrase \in chosen)) :
        chosen \in SUBSET ToSet(CorePhrases) }

\* C27: a profile gets exactly one MEDIUM "Incomplete procedural description"
\* defect iff its procedural steps, trimmed and lower-cased, lack one of the
\* four core phrases; the defect lists all missing phrases in sorted order;
\* a profile whose steps hold all four, in any case, order or padding, gets none.
C27_ProceduralSteps ==
    \A n \in 1..Len(returned) :
        LET report == returned[n]
            documents == <<doc_a, doc_b>>
            emitted(name) ==
                { i \in AttributedTo(report.defects.medium, name) :
                    report.defects.medium[i].description \in IncompleteDescriptions }
            due(name) ==
                { side \in 1..2 :
                    documents[side].name = name /\ LackingPhrases(documents[side]) # <<>> }
        IN  /\ \A name \in {doc_a.name, doc_b.name} :
                /\ Cardinality(emitted(name)) = Cardinality(due(name))
                /\ \A side \in due(name) :
                    \E i \in emitted(name) :
                        /\ report.defects.medium[i].description =
                                Incomplete(LackingPhrases(documents[side]))
                        /\ report.defects.medium[i].severity = MEDIUM
            /\ \A severity \in {"high", "low"} :
                \A i \in 1..Len(report.defects[severity]) :
                    report.defects[severity][i].description \notin IncompleteDescriptions

\* Doc A holds the four phrases in another order, upper-cased and padded, and
\* gets no such defect; Doc B lacks three of them.
C27_Witness ==
    /\ latest # None
    /\ doc_a.procedural_steps =
            <<" results recorded ", "TEST ADMINISTERED", "Directions provided", " vehicle stop ">>
    /\ doc_a.name # doc_b.name
    /\ \A i \in AttributedTo(latest[1].defects.medium, doc_a.name) :
            latest[1].defects.medium[i].description \notin IncompleteDescriptions
    /\ \E i \in AttributedTo(latest[1].defects.medium, doc_b.name) :
            latest[1].defects.medium[i].description =
                "Incomplete procedural description (missing: directions provided, results recorded, test administered)"

(***************************************************************************)
(* C28                                                                     *)
(***************************************************************************)
\* The provision that matches the HIGH defect of condition k.
MatchingProvision(k) ==
    CASE k = 1 -> "RSA_AUTHORITY"
      [] k = 2 -> "RSA_REASON"
      [] k = 3 -> "RSA_55D1"
      [] k = 4 -> "RSA_55E"
      [] k = 5 -> "CPA_STATEMENTS"
      [] k = 6 -> "CPA_DISCLOSURE"
      [] k = 7 -> "EA_60_69"
      [] k = 8 -> "EA_138"

\* The status a report gives the document of a side (1: Doc A, 2: Doc B) on a provision.
StatusOf(report, side, key) ==
    IF side = 1 THEN RowOf(report, key).doc_a.status ELSE RowOf(report, key).doc_b.status

\* C28: every HIGH defect of a report is attributed to a document that the
\* same report finds NON_COMPLIANT on the provision matching the defect, so no
\* document has a HIGH defect while none of its 15 statuses is NON_COMPLIANT.
C28_HighMeansNonCompliant ==
    \A n \in 1..Len(returned) :
        LET report == returned[n]
            documents == <<doc_a, doc_b>>
        IN  /\ \A i \in 1..Len(report.defects.high) :
                \E side \in 1..2, k \in 1..8 :
                    /\ documents[side].name = report.defects.high[i].document
                    /\ report.defects.high[i].description =
                            HighTitle(k) \o HighDetail(k, documents[side])
                    /\ StatusOf(report, side, MatchingProvision(k)) = NON_COMPLIANT
            /\ \A side \in 1..2 :
                (\A i \in 1..Len(PROVISIONS) :
                    StatusOf(report, side, PROVISIONS[i].key) # NON_COMPLIANT)
                => ( \/ AttributedTo(report.defects.high, documents[side].name) = {}
                     \/ documents[1].name = documents[2].name )

\* Doc A carries the compliance wording but no record of the directions: its
\* one HIGH defect is matched by NON_COMPLIANT on RSA_55D1, while Doc B has
\* HIGH defects of other kinds.
C28_Witness ==
    /\ latest # None
    /\ doc_a.name # doc_b.name
    /\ doc_a.preliminary_test.directions_compliance_language
    /\ ~doc_a.preliminary_test.directions_documented
    /\ \E i \in AttributedTo(latest[1].defects.high, doc_a.name) :
            latest[1].defects.high[i].description = "No evidence of directions given"
    /\ RowOf(latest[1], "RSA_55D1").doc_a.status = NON_COMPLIANT
    /\ RowOf(latest[1], "RSA_55D1").doc_a.missing_items = <<"record of directions given">>
    /\ Cardinality(AttributedTo(latest[1].defects.high, doc_b.name)) >= 2

(***************************************************************************)
(* C29                                                                     *)
(***************************************************************************)
\* C29: a report on a profile compared with itself has discrepancies "None"
\* on all 15 rows, empty elements_only_in_a, statutory_refs_only_in_a,
\* facts_only_in_a and procedures_only_in_a, all five targeted omissions
\* false, and no defect attributed to "Doc A & Doc B".
C29_SelfComparison ==
    doc_a = doc_b =>
        \A report \in ToSet(returned \o swapped) :
            /\ Len(report.cross_reference_matrix) = 15
            /\ \A i \in 1..Len(report.cross_reference_matrix) :
                report.cross_reference_matrix[i].discrepancies = "None"
            /\ \A field \in OnlyInA : report.omissions[field] = <<>>
            /\ DOMAIN report.omissions.targeted_omissions = ProbeKeys
            /\ \A key \in ProbeKeys : report.omissions.targeted_omissions[key] = FALSE
            /\ \A severity \in {"high", "medium", "low"} :
                AttributedTo(report.defects[severity], "Doc A & Doc B") = {}

\* The profile compared with itself gives a date, holds statutory
\* references, has a probed element and has defects of its own.
C29_Witness ==
    /\ doc_a = doc_b
    /\ latest # None
    /\ \E key \in DOMAIN doc_a.key_dates : doc_a.key_dates[key] # ""
    /\ doc_a.statutory_references # <<>>
    /\ \E key \in ProbeKeys : Probe(key, doc_a)
    /\ latest[1].defects.medium # <<>>
    /\ \E i \in 1..15 : latest[1].cross_reference_matrix[i].doc_a.missing_items # <<>>

(***************************************************************************)
(* C30                                                                     *)
(***************************************************************************)
\* The defects of `severity` among `defects`, in their order.
OfSeverity(defects, severity) == SelectSeq(defects, LAMBDA defect : defect.severity = severity)

\* The date defects of the keys both profiles date differently, in
\* code-point order of the keys.
InconsistentDates(a, b) ==
    LET keys == SelectSeq(CodePointOrder, LAMBDA key : key \in InconsistentKeys(a, b))
    IN  [i \in 1..Len(keys) |->
            Defect("Doc A & Doc B",
                   "Inconsistent " \o keys[i] \o " date: Doc A " \o a.key_dates[keys[i]]
                   \o " vs Doc B " \o b.key_dates[keys[i]],
                   MEDIUM, None)]

\* The three lists of `defects` for the arguments `a` and `b`: every list
\* holds the defects of its severity only, in the order first profile,
\* second profile, dates, and every emitted defect is in one of them.
GroupedBySeverity(defects, a, b) ==
    LET emitted == _identify_doc_defects(a) \o _identify_doc_defects(b)
                   \o InconsistentDates(a, b)
    IN  /\ \A i \in 1..Len(defects.high) : defects.high[i].severity = HIGH
        /\ \A i \in 1..Len(defects.medium) : defects.medium[i].severity = MEDIUM
        /\ \A i \in 1..Len(defects.low) : defects.low[i].severity = LOW
        /\ Len(defects.high) + Len(defects.medium) + Len(defects.low) = Len(emitted)
        /\ defects.high = OfSeverity(emitted, HIGH)
        /\ defects.medium = OfSeverity(emitted, MEDIUM)
        /\ defects.low = OfSeverity(emitted, LOW)

\* C30: in every DefectReport returned by build_phase_b_report each of the
\* three lists holds exactly the emitted defects of its own severity, none
\* dropped and none deduplicated, the defects of the first profile before
\* those of the second, and the date defects last in the medium list in
\* sorted key order.
C30_DefectLists ==
    /\ \A n \in 1..Len(returned) : GroupedBySeverity(returned[n].defects, doc_a, doc_b)
    /\ \A n \in 1..Len(swapped) : GroupedBySeverity(swapped[n].defects, doc_b, doc_a)

\* A report whose medium list holds defects of both profiles followed by two
\* date defects, and whose high and low lists are not empty.
C30_Witness ==
    /\ latest # None
    /\ doc_a.name # doc_b.name
    /\ Cardinality(InconsistentKeys(doc_a, doc_b)) = 2
    /\ OfSeverity(_identify_doc_defects(doc_a), MEDIUM) # <<>>
    /\ OfSeverity(_identify_doc_defects(doc_b), MEDIUM) # <<>>
    /\ latest[1].defects.high # <<>>
    /\ latest[1].defects.low # <<>>

=============================================================================
